---- MODULE Spec2Model ----
(***************************************************************************)
(* CoinJoin detection engine of Bitcluster                                 *)
(* (src/heuristics/coinjoin_detection.py, class CoinJoinDetectionHeuristic)*)
(*                                                                         *)
(* Amounts are integer satoshis.  A Python float confidence is encoded as  *)
(* an integer: the float nearest to k/10 is k*1000, and a float one        *)
(* rounding step above or below it is k*1000+1 or k*1000-1, so that        *)
(* 0.7 = 7000, 0.7000000000000001 = 7001, 0.7999999999999999 = 7999.       *)
(* The encoding keeps the order and the equality of the floats the engine  *)
(* computes.  An optional value (None in Python) is a sequence of length   *)
(* 0 or 1.                                                                 *)
(***************************************************************************)
EXTENDS Integers, Sequences, FiniteSets, TLC

VARIABLES
    config,               \* self.config
    confidence_threshold, \* self.confidence_threshold
    tx,                   \* tx_data handed to analyze_transaction
    pc,                   \* "submitted" before the call returns, "analyzed" after
    result,               \* the dict returned by analyze_transaction(tx)
    detectors_run,        \* <<name, verdict>> of each detect_* call it made, in order
    relation,             \* how tx2 was derived from tx ("none" when there is no tx2)
    tx2,                  \* a second transaction, derived from tx
    result2,              \* the dict returned by analyze_transaction(tx2)
    detectors_run2,       \* <<name, verdict>> of each detect_* call it made
    picked,               \* what the min() calls over the outputs of tx return
    confidence_threshold2,\* self.confidence_threshold of the engine of the second call
    calls,                \* the analyze_transaction calls in progress, by thread
    discovery,            \* the locals of discover_cluster and where it stands
    rate_limiting,        \* db.bitcoin.rate_limiting: the document of the month
    clock,                \* datetime.now(), as the hour of the day
    requests,             \* the _make_request calls in progress, by coroutine
    addresses_collection,    \* db.bitcoin.addresses: address -> n_id
    transactions_collection, \* db.bitcoin.transactions, in insertion order
    processing_collection,   \* db.bitcoin.processing_status: address -> status
    next_node_id,         \* DataProcessor.next_node_id
    upstream,             \* what the API answers to /address/<a>/txs
    process_calls         \* the process_address calls made so far, in order

\* the state of the Blockstream client and of the data processor
blockstream == <<discovery, rate_limiting, clock, requests,
                 addresses_collection, transactions_collection,
                 processing_collection, next_node_id, upstream,
                 process_calls>>

\* the state of the CoinJoin engine and of its callers
engine == <<config, confidence_threshold, tx, pc, result, detectors_run,
            relation, tx2, result2, detectors_run2, picked,
            confidence_threshold2, calls>>

vars == <<engine, blockstream>>

----------------------------------------------------------------------------
(* Generic helpers standing for Python built-ins                           *)

Range(s) == {s[i] : i \in DOMAIN s}

\* list.count(v)
Count(s, v) == Cardinality({i \in DOMAIN s : s[i] = v})

\* max() of a non-empty set of integers
MaxOf(S) == CHOOSE x \in S : \A y \in S : y <= x

\* abs()
Abs(x) == IF x < 0 THEN -x ELSE x

RECURSIVE Sum(_)
\* sum() of a list of integers
Sum(s) == IF s = <<>> THEN 0 ELSE s[1] + Sum(Tail(s))

RECURSIVE SelectSeq2(_, _)
\* [x for x in s if x in S]
SelectSeq2(s, S) ==
    IF s = <<>> THEN <<>>
    ELSE IF s[1] \in S THEN <<s[1]>> \o SelectSeq2(Tail(s), S)
         ELSE SelectSeq2(Tail(s), S)

\* DictKeys handing the keys on in ascending order
DictKeysSorted(s) ==
    LET S == Range(s)
    IN  [i \in 1..Cardinality(S) |->
            CHOOSE v \in S : Cardinality({u \in S : u < v}) = i - 1]

\* keys of the dict built by "for val in outputs: value_counts[val] = ...",
\* in the insertion order a Python dict keeps: the order of first occurrence
DictKeys(s) ==
    LET firsts == {i \in DOMAIN s : \A j \in 1..(i - 1) : s[j] # s[i]}
        F[i \in 0..Len(s)] ==
            IF i = 0 THEN <<>>
            ELSE IF i \in firsts THEN Append(F[i - 1], s[i]) ELSE F[i - 1]
    IN  F[Len(s)]

\* the elements min(S, key=...) can return: min() returns the first minimal
\* element in the iteration order of S, and the iteration order of a Python
\* set is unspecified, so every element with the minimal key is possible;
\* key maps each element of S to its key
ArgMin(S, key) == {x \in S : \A y \in S : key[x] <= key[y]}

----------------------------------------------------------------------------
(* Python float arithmetic on confidences                                  *)

Tenth(a) == ((a + 500) \div 1000) * 1000

\* IEEE-754 double addition a + w, for the accumulator values and weights
\* the detectors use; the two sets list the sums whose rounded result is
\* one step above / below the double nearest to the decimal sum
FloatAdd(a, w) ==
    CASE <<a, w>> \in {<<2000, 1000>>, <<4000, 2000>>, <<6001, 1000>>}
              -> Tenth(a) + w + 1
      [] <<a, w>> \in {<<7000, 1000>>, <<7000, 2000>>, <<7999, 1000>>,
                       <<8999, 1000>>, <<9999, 1000>>}
              -> Tenth(a) + w - 1
      [] OTHER -> Tenth(a) + w

\* FloatMin without the clamp
FloatMinUnclamped(a, b) == a

\* min(confidence, 1.0)
FloatMin(a, b) == IF a <= b THEN a ELSE b

RECURSIVE Score(_, _)
\* confidence = 0.0; then "if condition: confidence += weight" for each
\* <<condition, weight>> of the list, in order
Score(acc, conds) ==
    IF conds = <<>> THEN acc
    ELSE Score(IF conds[1][1] THEN FloatAdd(acc, conds[1][2]) ELSE acc,
               Tail(conds))

\* int(btc * 10**8) for a BTC amount written num / 10^k, given as <<num, 10^k>>
BtcToSatoshis(btc) == btc[1] * (100000000 \div btc[2])

----------------------------------------------------------------------------
(* Configuration                                                           *)

\* self.confidence_threshold = 0.7
DefaultConfidenceThreshold == 7000

\* self.config; BTC amounts are fractions <<num, den>>, eta1 and eta2 too
DefaultConfig ==
    [whirlpool_pools |-> << << <<1, 1000>>, <<5, 100000>> >>,
                            << <<1, 100>>, <<5, 10000>> >>,
                            << <<5, 100>>, <<175, 100000>> >>,
                            << <<5, 10>>, <<175, 10000>> >> >>,
     wasabi_1_0 |-> [target_denomination_btc |-> <<1, 10>>,
                     epsilon_btc |-> <<1, 100>>,
                     amax |-> 10],
     wasabi_1_1 |-> [target_denomination_btc |-> <<1, 10>>,
                     epsilon_btc |-> <<1, 100>>,
                     amax |-> 10,
                     max_mixing_level |-> 3],
     wasabi_2_0 |-> [denominations_satoshis |->
                         <<50000, 100000, 200000, 500000, 1000000, 2000000,
                           5000000, 10000000>>,
                     amax |-> 10,
                     p |-> 50,
                     vmin |-> 5000],
     whirlpool_tx0 |-> [amax |-> 70,
                        eta1 |-> <<1, 2>>,
                        eta2 |-> <<3, 1>>,
                        epsilon_min |-> 100,
                        epsilon_max |-> 100000],
     whirlpool_mix |-> [epsilon_max |-> 100000]]

\* pools_satoshis = [(int(d * 10**8), int(f * 10**8)) for d, f in pools]
PoolsSatoshis(pools) ==
    [i \in DOMAIN pools |->
        <<BtcToSatoshis(pools[i][1]), BtcToSatoshis(pools[i][2])>>]

----------------------------------------------------------------------------
(* Feature extraction                                                      *)

\* an input is [prevout |-> <<>>] (no previous output: coinbase) or
\* [prevout |-> <<[value |-> <<v>>, scriptpubkey |-> s]>>], the value being
\* <<>> when the previous output carries None for it; a previous output
\* without the key "value" is [scriptpubkey |-> s]
WithPrevout(inputs) ==
    LET F[i \in 0..Len(inputs)] ==
            IF i = 0 THEN <<>>
            ELSE IF inputs[i].prevout # <<>>
                 THEN Append(F[i - 1], inputs[i].prevout[1])
                 ELSE F[i - 1]
    IN  F[Len(inputs)]

\* prevout.get('value', 0): 0 without the key, a None is handed on
PrevValue(prevout) ==
    IF "value" \in DOMAIN prevout THEN prevout.value ELSE <<0>>

\* a list of optional integers
_extract_input_amounts(inputs) ==
    LET p == WithPrevout(inputs) IN [i \in DOMAIN p |-> PrevValue(p[i])]

\* some amount of the list is None: sum() raises TypeError
HasNone(amounts) == \E i \in DOMAIN amounts : amounts[i] = <<>>

\* the integers of a list of amounts none of which is None
IntAmounts(amounts) == [i \in DOMAIN amounts |-> amounts[i][1]]

_extract_output_amounts(outputs) ==
    [i \in DOMAIN outputs |-> outputs[i].value]

_extract_input_scripts(inputs) ==
    LET p == WithPrevout(inputs) IN [i \in DOMAIN p |-> p[i].scriptpubkey]

\* _extract_output_scripts keeping the last bit of each script only
_extract_output_scripts_last_bit(outputs) ==
    [i \in DOMAIN outputs |-> outputs[i].scriptpubkey % 2]

_extract_output_scripts(outputs) ==
    [i \in DOMAIN outputs |-> outputs[i].scriptpubkey]

\* the analysis_data dict analyze_transaction builds
AnalysisData(inputs, outputs) ==
    LET input_amounts == IntAmounts(_extract_input_amounts(inputs))
        output_amounts == _extract_output_amounts(outputs)
        input_scripts == _extract_input_scripts(inputs)
        output_scripts == _extract_output_scripts(outputs)
    IN  [input_count |-> Len(inputs),
         output_count |-> Len(outputs),
         input_amounts |-> input_amounts,
         output_amounts |-> output_amounts,
         input_scripts |-> input_scripts,
         output_scripts |-> output_scripts,
         nscripts_in |-> Cardinality(Range(input_scripts)),
         nscripts_out |-> Cardinality(Range(output_scripts)),
         total_input |-> Sum(input_amounts),
         total_output |-> Sum(output_amounts)]

----------------------------------------------------------------------------
(* Detector verdicts                                                       *)

\* EarlyVerdict keeping a score of 0.4 next to the diagnostic
EarlyVerdictWithScore(diagnostic) ==
    [confidence |-> 4000, participants |-> <<>>, denomination |-> <<>>,
     conditions_met |-> <<>>, diagnostic |-> diagnostic]

\* {'confidence': 0.0, 'error': ...} and {'confidence': 0.0, 'reason': ...}
EarlyVerdict(diagnostic) ==
    [confidence |-> 0, participants |-> <<>>, denomination |-> <<>>,
     conditions_met |-> <<>>, diagnostic |-> diagnostic]

FullVerdict(confidence, participants, denomination, conditions_met) ==
    [confidence |-> confidence, participants |-> <<participants>>,
     denomination |-> <<denomination>>, conditions_met |-> conditions_met,
     diagnostic |-> ""]

\* NEstimated taking the smallest multiplicity
NEstimatedSmallest(outputs) ==
    LET counts == {Count(outputs, v) : v \in Range(outputs)}
    IN  CHOOSE x \in counts : \A y \in counts : x <= y

\* n_estimated = max(value_counts.values())
NEstimated(outputs) == MaxOf({Count(outputs, v) : v \in Range(outputs)})

\* {val for val, count in value_counts.items() if count == n_estimated}
DPossibleDenominations(outputs) ==
    {v \in Range(outputs) : Count(outputs, v) = NEstimated(outputs)}

----------------------------------------------------------------------------
(* The six detectors.  cfg is self.config, analysis_data the feature dict. *)

detect_joinmarket_v2(analysis_data) ==
    LET outputs == analysis_data.output_amounts
        nscripts_in == analysis_data.nscripts_in
        nscripts_out == analysis_data.nscripts_out
        value_counts == DictKeys(outputs)
        n_estimated == NEstimated(outputs)
        delta_out == Len(outputs)
        condition1 == 2 * n_estimated >= delta_out
        condition2 == nscripts_in >= 3
        condition3 == delta_out = nscripts_out
        confidence == Score(0, << <<condition1, 4000>>, <<condition2, 4000>>,
                                  <<condition3, 2000>> >>)
        \* for val, count in value_counts.items(): first with count == n
        first == CHOOSE i \in DOMAIN value_counts :
                    /\ Count(outputs, value_counts[i]) = n_estimated
                    /\ \A j \in 1..(i - 1) :
                          Count(outputs, value_counts[j]) # n_estimated
    IN  IF outputs = <<>> THEN EarlyVerdict("error")
        ELSE FullVerdict(FloatMin(confidence, 10000), n_estimated,
                         value_counts[first],
                         <<condition1, condition2, condition3>>)

\* key=lambda x: abs(x - target_denomination_satoshis)
Wasabi1Key(wcfg, x) == Abs(x - BtcToSatoshis(wcfg.target_denomination_btc))

\* the values d_hat = min(d_possible_denominations, key=...) can take in
\* detect_wasabi_1_0 and detect_wasabi_1_1 (same target in both configs)
Wasabi1DHat(wcfg, outputs) ==
    LET d_possible_denominations == DPossibleDenominations(outputs)
    IN  ArgMin(d_possible_denominations,
               [x \in d_possible_denominations |-> Wasabi1Key(wcfg, x)])

\* conditions 1 to 4 of Wasabi 1.0 and 1.1
Wasabi1Conditions(wcfg, analysis_data, d_hat) ==
    LET outputs == analysis_data.output_amounts
        inputs == analysis_data.input_amounts
        nscripts_in == analysis_data.nscripts_in
        nscripts_out == analysis_data.nscripts_out
        target_denomination_satoshis ==
            BtcToSatoshis(wcfg.target_denomination_btc)
        epsilon_satoshis == BtcToSatoshis(wcfg.epsilon_btc)
        amax == wcfg.amax
        n_estimated == NEstimated(outputs)
        num_inputs == Len(inputs)
        num_outputs == Len(outputs)
        condition1 ==
            /\ target_denomination_satoshis - epsilon_satoshis <= d_hat
            /\ d_hat <= target_denomination_satoshis + epsilon_satoshis
        condition2 == /\ n_estimated <= nscripts_in
                      /\ nscripts_in <= num_inputs
                      /\ num_inputs <= amax * n_estimated
        condition3 == 2 * n_estimated >= num_outputs - 1
        condition4 == num_outputs = nscripts_out
    IN  <<condition1, condition2, condition3, condition4>>

\* d_hat is the element min() returned, one of Wasabi1DHat
detect_wasabi_1_0(cfg, analysis_data, d_hat) ==
    LET outputs == analysis_data.output_amounts
        c == Wasabi1Conditions(cfg.wasabi_1_0, analysis_data, d_hat)
        confidence == Score(0, << <<c[1], 4000>>, <<c[2], 3000>>,
                                  <<c[3], 2000>>, <<c[4], 1000>> >>)
    IN  IF outputs = <<>> THEN EarlyVerdict("error")
        ELSE FullVerdict(FloatMin(confidence, 10000), NEstimated(outputs),
                         d_hat, c)

\* detect_wasabi_1_1 with the fifth condition at weight 0.2
detect_wasabi_1_1_level_doubled(cfg, analysis_data, d_hat) ==
    LET outputs == analysis_data.output_amounts
        c == Wasabi1Conditions(cfg.wasabi_1_1, analysis_data, d_hat)
        condition5 == NEstimated(outputs) <= cfg.wasabi_1_1.max_mixing_level
        confidence == Score(0, << <<c[1], 4000>>, <<c[2], 3000>>,
                                  <<c[3], 2000>>, <<c[4], 1000>>,
                                  <<condition5, 2000>> >>)
    IN  IF outputs = <<>> THEN EarlyVerdict("error")
        ELSE FullVerdict(FloatMin(confidence, 10000), NEstimated(outputs),
                         d_hat, Append(c, condition5))

detect_wasabi_1_1(cfg, analysis_data, d_hat) ==
    LET outputs == analysis_data.output_amounts
        c == Wasabi1Conditions(cfg.wasabi_1_1, analysis_data, d_hat)
        condition5 == NEstimated(outputs) <= cfg.wasabi_1_1.max_mixing_level
        confidence == Score(0, << <<c[1], 4000>>, <<c[2], 3000>>,
                                  <<c[3], 2000>>, <<c[4], 1000>>,
                                  <<condition5, 1000>> >>)
    IN  IF outputs = <<>> THEN EarlyVerdict("error")
        ELSE FullVerdict(FloatMin(confidence, 10000), NEstimated(outputs),
                         d_hat, Append(c, condition5))

\* Wasabi2Key as the distance to the first fixed denomination only
Wasabi2KeyToFirst(wcfg, x) == Abs(x - wcfg.denominations_satoshis[1])

\* key=lambda x: min(abs(x - d) for d in denominations_satoshis)
Wasabi2Key(wcfg, x) ==
    LET dists == {Abs(x - d) : d \in Range(wcfg.denominations_satoshis)}
    IN  CHOOSE m \in dists : \A k \in dists : m <= k

\* the values d_hat = min(d_possible_denominations, key=...) can take in
\* detect_wasabi_2_0
Wasabi2DHat(wcfg, outputs) ==
    LET d_possible_denominations == DPossibleDenominations(outputs)
    IN  \* min() of an empty generator raises ValueError: no d_hat
        IF wcfg.denominations_satoshis = <<>> THEN {0}
        ELSE ArgMin(d_possible_denominations,
                    [x \in d_possible_denominations |-> Wasabi2Key(wcfg, x)])

\* d_hat is the element min() returned, one of Wasabi2DHat
detect_wasabi_2_0(cfg, analysis_data, d_hat) ==
    LET wcfg == cfg.wasabi_2_0
        outputs == analysis_data.output_amounts
        inputs == analysis_data.input_amounts
        nscripts_in == analysis_data.nscripts_in
        nscripts_out == analysis_data.nscripts_out
        amax == wcfg.amax
        n_estimated == NEstimated(outputs)
        num_inputs == Len(inputs)
        num_outputs == Len(outputs)
        condition1 == d_hat \in Range(wcfg.denominations_satoshis)
        condition2 == /\ n_estimated <= nscripts_in
                      /\ nscripts_in <= num_inputs
                      /\ num_inputs <= amax * n_estimated
        condition3 == 2 * n_estimated >= num_outputs - 1
        condition4 == num_outputs = nscripts_out
        condition5 == d_hat >= wcfg.vmin
        confidence == Score(0, << <<condition1, 4000>>, <<condition2, 3000>>,
                                  <<condition3, 2000>>, <<condition4, 1000>>,
                                  <<condition5, 1000>> >>)
    IN  IF outputs = <<>> THEN EarlyVerdict("error")
        \* the ValueError of min() is caught by "except Exception as e"
        ELSE IF wcfg.denominations_satoshis = <<>> THEN EarlyVerdict("error")
        ELSE FullVerdict(FloatMin(confidence, 10000), n_estimated, d_hat,
                         <<condition1, condition2, condition3, condition4,
                           condition5>>)

\* DTilde taking the lowest value on a tie
DTildeLowestOnTie(candidate_pre_mix_values) ==
    CHOOSE v \in Range(candidate_pre_mix_values) :
        \A u \in Range(candidate_pre_mix_values) :
            \/ Count(candidate_pre_mix_values, u)
                  < Count(candidate_pre_mix_values, v)
            \/ /\ Count(candidate_pre_mix_values, u)
                     = Count(candidate_pre_mix_values, v)
               /\ v <= u

\* max(val_counts.items(), key=lambda x: (x[1], x[0]))[0]
DTilde(candidate_pre_mix_values) ==
    CHOOSE v \in Range(candidate_pre_mix_values) :
        \A u \in Range(candidate_pre_mix_values) :
            \/ Count(candidate_pre_mix_values, u)
                  < Count(candidate_pre_mix_values, v)
            \/ /\ Count(candidate_pre_mix_values, u)
                     = Count(candidate_pre_mix_values, v)
               /\ u <= v

\* MatchedPool stopping at the first pool at or below d_tilde
MatchedPoolFirstBelow(pools_satoshis, d_tilde) ==
    CHOOSE k \in DOMAIN pools_satoshis :
        /\ pools_satoshis[k][1] <= d_tilde
        /\ \A j \in 1..(k - 1) : pools_satoshis[j][1] > d_tilde

\* the loop keeps the first pool at or below d_tilde with the smallest
\* difference (strict "<" on min_diff); the index of that pool
MatchedPool(pools_satoshis, d_tilde) ==
    CHOOSE k \in DOMAIN pools_satoshis :
        /\ pools_satoshis[k][1] <= d_tilde
        /\ \A j \in DOMAIN pools_satoshis :
              pools_satoshis[j][1] <= d_tilde =>
                  \/ Abs(pools_satoshis[k][1] - d_tilde)
                        < Abs(pools_satoshis[j][1] - d_tilde)
                  \/ /\ Abs(pools_satoshis[k][1] - d_tilde)
                           = Abs(pools_satoshis[j][1] - d_tilde)
                     /\ k <= j

detect_whirlpool_tx0(cfg, analysis_data) ==
    LET tcfg == cfg.whirlpool_tx0
        outputs == analysis_data.output_amounts
        amax == tcfg.amax
        eta1 == tcfg.eta1
        eta2 == tcfg.eta2
        epsilon_min == tcfg.epsilon_min
        epsilon_max == tcfg.epsilon_max
        pools_satoshis == PoolsSatoshis(cfg.whirlpool_pools)
        num_outputs == Len(outputs)
        IsCandidate(val) ==
            \E k \in DOMAIN pools_satoshis :
                /\ pools_satoshis[k][1] + epsilon_min <= val
                /\ val <= pools_satoshis[k][1] + epsilon_max
        candidate_pre_mix_values ==
            SelectSeq2(outputs, {v \in Range(outputs) : IsCandidate(v)})
        cands == Range(candidate_pre_mix_values)
        d_tilde == DTilde(candidate_pre_mix_values)
        below == {k \in DOMAIN pools_satoshis :
                     pools_satoshis[k][1] <= d_tilde}
        matched == MatchedPool(pools_satoshis, d_tilde)
        d_hat == pools_satoshis[matched][1]
        f_hat == pools_satoshis[matched][2]
        epsilon_tilde == d_tilde - d_hat
        count_pre_mix_outputs == Count(outputs, d_tilde)
        \* eta1 * f_hat <= val <= eta2 * f_hat, eta = <<num, den>>
        count_coordinator_fee_outputs ==
            Cardinality({i \in DOMAIN outputs :
                /\ eta1[1] * f_hat <= outputs[i] * eta1[2]
                /\ outputs[i] * eta2[2] <= eta2[1] * f_hat})
        count_zero_value_outputs == Count(outputs, 0)
        condition1 == count_pre_mix_outputs >= num_outputs - 3
        condition2 == /\ count_pre_mix_outputs >= 1
                      /\ count_coordinator_fee_outputs = 1
                      /\ count_zero_value_outputs = 1
        condition3 == count_pre_mix_outputs <= amax
        condition4 == /\ epsilon_min <= epsilon_tilde
                      /\ epsilon_tilde <= epsilon_max
        confidence == Score(0, << <<condition1, 4000>>, <<condition2, 3000>>,
                                  <<condition3, 2000>>, <<condition4, 1000>> >>)
    IN  IF candidate_pre_mix_values = <<>> THEN EarlyVerdict("reason")
        ELSE IF below = {} THEN EarlyVerdict("reason")
        ELSE FullVerdict(FloatMin(confidence, 10000), count_pre_mix_outputs,
                         d_hat,
                         <<condition1, condition2, condition3, condition4>>)

detect_whirlpool_mix(cfg, analysis_data) ==
    LET input_amounts == analysis_data.input_amounts
        output_amounts == analysis_data.output_amounts
        input_scripts == analysis_data.input_scripts
        output_scripts == analysis_data.output_scripts
        epsilon_max == cfg.whirlpool_mix.epsilon_max
        pools_satoshis == PoolsSatoshis(cfg.whirlpool_pools)
        condition1 == /\ Len(input_amounts) = 5
                      /\ Cardinality(Range(input_scripts)) = 5
                      /\ Cardinality(Range(output_scripts)) = 5
                      /\ Len(output_amounts) = 5
        \* first pool, in list order, whose denomination is five outputs
        matching == {k \in DOMAIN pools_satoshis :
                        Count(output_amounts, pools_satoshis[k][1]) = 5}
        d_pool_matched ==
            pools_satoshis[CHOOSE k \in matching :
                              \A j \in matching : k <= j][1]
        count_valid_inputs ==
            Cardinality({i \in DOMAIN input_amounts :
                /\ d_pool_matched <= input_amounts[i]
                /\ input_amounts[i] <= d_pool_matched + epsilon_max})
        condition2 == count_valid_inputs = 5
        count_inputs_gt_d ==
            Cardinality({i \in DOMAIN input_amounts :
                            input_amounts[i] > d_pool_matched})
        condition3 == 1 <= count_inputs_gt_d /\ count_inputs_gt_d <= 4
        confidence == Score(0, << <<condition1, 5000>>, <<condition2, 3000>>,
                                  <<condition3, 2000>> >>)
    IN  IF ~condition1 THEN EarlyVerdict("reason")
        ELSE IF matching = {} THEN EarlyVerdict("reason")
        ELSE FullVerdict(FloatMin(confidence, 10000), 5, d_pool_matched,
                         <<condition1, condition2, condition3>>)

----------------------------------------------------------------------------
(* The arbiter                                                             *)

_negative_result(reason, analysis_data) ==
    [is_coinjoin |-> FALSE,
     coinjoin_type |-> "None",
     confidence |-> 0,
     coinjoin_participants |-> <<>>,
     coinjoin_denomination |-> <<>>,
     analysis |-> [reason |-> reason,
                   detected_service |-> "None",
                   service_analysis |-> <<>>,
                   transaction_structure |-> analysis_data,
                   all_detections |-> <<>>]]

RECURSIVE BestMatchLastWins(_, _, _, _, _)
\* BestMatch with ">=" for ">": a later detector takes over on a tie
BestMatchLastWins(results, threshold, i, best_match, best_confidence) ==
    IF i > Len(results) THEN best_match
    ELSE IF /\ results[i][2].confidence >= best_confidence
            /\ results[i][2].confidence >= threshold
         THEN BestMatchLastWins(results, threshold, i + 1, i,
                                results[i][2].confidence)
         ELSE BestMatchLastWins(results, threshold, i + 1, best_match,
                                best_confidence)

RECURSIVE BestMatchFirstQualifying(_, _, _, _, _)
\* BestMatch stopping at the first detector that meets the threshold
BestMatchFirstQualifying(results, threshold, i, best_match, best_confidence) ==
    IF i > Len(results) THEN best_match
    ELSE IF /\ results[i][2].confidence > best_confidence
            /\ results[i][2].confidence >= threshold
         THEN i
         ELSE BestMatchFirstQualifying(results, threshold, i + 1, best_match,
                                       best_confidence)

RECURSIVE BestMatch(_, _, _, _, _)
\* the loop "for service_type, result in results": the index of best_match
\* in results, 0 for None
BestMatch(results, threshold, i, best_match, best_confidence) ==
    IF i > Len(results) THEN best_match
    ELSE IF /\ results[i][2].confidence > best_confidence
            /\ results[i][2].confidence >= threshold
         THEN BestMatch(results, threshold, i + 1, i,
                        results[i][2].confidence)
         ELSE BestMatch(results, threshold, i + 1, best_match,
                        best_confidence)

\* results = [('joinmarket', joinmarket_result), ...]; picks holds what the
\* two min() calls over d_possible_denominations returned
RunDetectors(cfg, analysis_data, picks) ==
    << <<"joinmarket", detect_joinmarket_v2(analysis_data)>>,
       <<"wasabi_1_0", detect_wasabi_1_0(cfg, analysis_data, picks.wasabi_1)>>,
       <<"wasabi_1_1", detect_wasabi_1_1(cfg, analysis_data, picks.wasabi_1)>>,
       <<"wasabi_2_0", detect_wasabi_2_0(cfg, analysis_data, picks.wasabi_2)>>,
       <<"whirlpool_tx0", detect_whirlpool_tx0(cfg, analysis_data)>>,
       <<"whirlpool_mix", detect_whirlpool_mix(cfg, analysis_data)>> >>

\* InsufficientStructure letting a single input through
InsufficientStructureOneInput(inputs, outputs) ==
    Len(inputs) < 1 \/ Len(outputs) < 2

\* if len(inputs) < 2 or len(outputs) < 2
InsufficientStructure(inputs, outputs) ==
    Len(inputs) < 2 \/ Len(outputs) < 2

\* the dict returned when best_match is not None; best_match is the index
\* in results of the winning (service_type, result) pair
PositiveResult(results, best_match, analysis_data) ==
    [ret |-> [is_coinjoin |-> TRUE,
              coinjoin_type |-> results[best_match][1],
              confidence |-> results[best_match][2].confidence,
              coinjoin_participants |-> results[best_match][2].participants,
              coinjoin_denomination |-> results[best_match][2].denomination,
              analysis |-> [reason |-> "",
                            detected_service |-> results[best_match][1],
                            service_analysis |-> <<results[best_match][2]>>,
                            transaction_structure |-> <<analysis_data>>,
                            all_detections |-> results]],
     ran |-> results]

\* "if best_match:" and the two returns after the loop
ReturnBestMatch(results, best_match, analysis_data) ==
    IF best_match # 0
    THEN PositiveResult(results, best_match, analysis_data)
    ELSE [ret |-> _negative_result("No CoinJoin pattern detected above threshold",
                                   <<analysis_data>>),
          ran |-> results]

\* the loop over results followed by the return
SelectBestMatch(results, threshold, analysis_data) ==
    ReturnBestMatch(results, BestMatch(results, threshold, 1, 0, 0),
                    analysis_data)

\* analyze_transaction from the amount check on, analysis_data being built
AnalyzeExtracted(cfg, threshold, analysis_data, picks) ==
    SelectBestMatch(RunDetectors(cfg, analysis_data, picks), threshold,
                    analysis_data)

\* "if not input_amounts or not output_amounts"
NoAmounts(inputs, outputs) ==
    \/ _extract_input_amounts(inputs) = <<>>
    \/ _extract_output_amounts(outputs) = <<>>

\* analyze_transaction(tx_data) of an engine with configuration cfg and
\* threshold; ret is the returned dict, ran the detector calls made
analyze_transaction(cfg, threshold, tx_data, picks) ==
    IF InsufficientStructure(tx_data.vin, tx_data.vout)
    THEN [ret |-> _negative_result("Insufficient inputs/outputs for CoinJoin", <<>>),
          ran |-> <<>>]
    ELSE IF NoAmounts(tx_data.vin, tx_data.vout)
    THEN [ret |-> _negative_result("Unable to extract transaction amounts", <<>>),
          ran |-> <<>>]
    \* sum(input_amounts) raises, "except Exception as e" returns
    ELSE IF HasNone(_extract_input_amounts(tx_data.vin))
    THEN [ret |-> _negative_result("Analysis error", <<>>), ran |-> <<>>]
    ELSE AnalyzeExtracted(cfg, threshold,
                          AnalysisData(tx_data.vin, tx_data.vout), picks)

\* what the two min() calls of one analysis can return
MinPicks(cfg, tx_data) ==
    LET outputs == _extract_output_amounts(tx_data.vout)
    IN  IF outputs = <<>> THEN {[wasabi_1 |-> 0, wasabi_2 |-> 0]}
        ELSE [wasabi_1 : Wasabi1DHat(cfg.wasabi_1_0, outputs),
              wasabi_2 : Wasabi2DHat(cfg.wasabi_2_0, outputs)]

----------------------------------------------------------------------------
(* Transactions handed to the engine                                       *)

\* an input spending a previous output, and a coinbase input
In(v, s) == [prevout |-> <<[value |-> <<v>>, scriptpubkey |-> s]>>]

\* an input whose previous output has "value": None
InNoValue(s) == [prevout |-> <<[value |-> <<>>, scriptpubkey |-> s]>>]

\* an input whose previous output has no "value" key
InMissingValue(s) == [prevout |-> <<[scriptpubkey |-> s]>>]

Coinbase == [prevout |-> <<>>]

Out(v, s) == [value |-> v, scriptpubkey |-> s]

\* bounds of the exhaustively enumerated transactions
MaxIn == 3

MaxOut == 3

\* scripts are opaque tokens, here 1, 2, ...; the enumeration names them in
\* the order of first use (0 marks an entry without script)
Labelings(n, Low) ==
    {f \in [1..n -> Low..n] :
        \A i \in 1..n :
            f[i] <= 1 + MaxOf({0} \cup {f[j] : j \in 1..(i - 1)})}

SmallInValue == 1000000

SmallOutValues == {0, 1050000, 10000000}

\* every transaction with at most MaxIn inputs (coinbase or not) and at most
\* MaxOut outputs over SmallOutValues, up to the naming of the scripts
SmallTxs ==
    UNION {
        {[vin |-> [i \in 1..ni |->
                      IF sl[i] = 0 THEN Coinbase ELSE In(SmallInValue, sl[i])],
          vout |-> [i \in 1..no |-> Out(ov[i], ol[i])]] :
            sl \in Labelings(ni, 0),
            ov \in [1..no -> SmallOutValues],
            ol \in Labelings(no, 1)} :
        ni \in 0..MaxIn, no \in 0..MaxOut}

\* five-input, five-output transactions around each pool denomination d:
\* every input is d, d + 50_000 or just above d + epsilon_max, in
\* ascending order; the input
\* scripts are distinct or the last repeats the first; the outputs are all d
\* with distinct scripts, all d with a repeated script, or one is d + 1
MixShapedTxs ==
    LET pools == PoolsSatoshis(DefaultConfig.whirlpool_pools)
    IN  UNION {
          {[vin |-> [i \in 1..5 |->
                        In(iv[i], IF i = 5 /\ dupin THEN 1 ELSE i)],
            vout |-> [i \in 1..5 |->
                        Out(IF i = 5 /\ outkind = 3 THEN d + 1 ELSE d,
                            IF i = 5 /\ outkind = 2 THEN 1 ELSE i)]] :
              iv \in {f \in [1..5 -> {d, d + 50000, d + 100001}] :
                         \A i \in 1..4 : f[i] <= f[i + 1]},
              dupin \in BOOLEAN,
              outkind \in 1..3} :
          d \in {pools[k][1] : k \in DOMAIN pools}}

\* ten inputs over eight or seven distinct scripts; eleven outputs with
\* distinct scripts (or one repeated), eight of them 10_000_000 and three
\* change outputs, placed after, before or between the equal outputs
WasabiShapedTxs ==
    {[vin |-> [i \in 1..10 |-> In(12000000, IF i <= nsc THEN i ELSE i - nsc)],
      vout |-> [i \in 1..11 |->
                   Out(IF i = place[1] THEN change[1]
                       ELSE IF i = place[2] THEN change[2]
                       ELSE IF i = place[3] THEN change[3]
                       ELSE 10000000,
                       IF i = 11 /\ dupout THEN 1 ELSE i)]] :
        nsc \in {7, 8},
        change \in [1..3 -> {50000, 1050000, 9500000}],
        place \in {<<9, 10, 11>>, <<1, 2, 3>>, <<2, 6, 10>>},
        dupout \in BOOLEAN}

\* the Tx0 output values of the specification's scenario with any output
\* scripts pattern out of four, and two to MaxIn inputs with previous
\* outputs, of any scripts
Tx0ShapedTxs ==
    LET values == <<1050000, 1050000, 1050000, 1050000, 1050000, 50000, 0>>
    IN  UNION {
          {[vin |-> [i \in 1..ni |-> In(iv[i], sl[i])],
            vout |-> [i \in 1..7 |->
                        Out(values[i],
                            CASE ok = 1 -> i
                              [] ok = 2 -> 1
                              [] ok = 3 -> IF i = 7 THEN 1 ELSE i
                              [] OTHER -> IF i = 2 THEN 1 ELSE i)]] :
              iv \in [1..ni -> {1000000, 3000000}],
              sl \in Labelings(ni, 1),
              ok \in 1..4} :
          ni \in 2..MaxIn}

\* the end-to-end scenarios of the specification, literally
MixExample ==
    [vin |-> <<In(1000000, 1), In(1050000, 2), In(1030000, 3),
               In(1010000, 4), In(1000000, 5)>>,
     vout |-> [i \in 1..5 |-> Out(1000000, i)]]

JoinMarketExample ==
    [vin |-> <<In(5000000, 1), In(7000000, 2), In(9000000, 3)>>,
     vout |-> <<Out(3000000, 1), Out(3000000, 2), Out(3000000, 3),
                Out(2100000, 4), Out(4200000, 5), Out(8700000, 6)>>]

WasabiExample ==
    [vin |-> [i \in 1..10 |-> In(12000000, IF i <= 8 THEN i ELSE i - 8)],
     vout |-> [i \in 1..11 |->
                  Out(IF i <= 8 THEN 10000000 ELSE 50000, i)]]

Tx0Example ==
    [vin |-> <<In(3000000, 1), In(3000000, 2)>>,
     vout |-> <<Out(1050000, 1), Out(1050000, 2), Out(1050000, 3),
                Out(1050000, 4), Out(1050000, 5), Out(50000, 6), Out(0, 7)>>]

PaymentExample ==
    [vin |-> <<In(500000, 1)>>,
     vout |-> <<Out(400000, 2), Out(95000, 1)>>]

\* hostile input: two or three inputs and two outputs with distinct
\* scripts, some amount negative
NegativeAmountTxs ==
    {t \in UNION {
        {[vin |-> [i \in 1..ni |-> In(IF i = 1 THEN iv ELSE 1000000, i)],
          vout |-> [i \in 1..2 |-> Out(ov[i], i)]] :
            iv \in {-1000000, 1000000},
            ov \in [1..2 -> {-5000, 1050000}]} :
        ni \in 2..3} :
        \/ t.vin[1].prevout[1].value[1] < 0
        \/ \E j \in DOMAIN t.vout : t.vout[j].value < 0}

\* two or three outputs worth 9_500_000 or 10_500_000, as far below as
\* above the Wasabi 1.x target, behind two or three inputs; all scripts
\* distinct
WasabiTieTxs ==
    UNION {
        {[vin |-> [i \in 1..ni |-> In(12000000, i)],
          vout |-> [i \in 1..no |-> Out(ov[i], i)]] :
            ov \in [1..no -> {9500000, 10500000}]} :
        ni \in 2..3, no \in 2..3}

\* ill-typed input: the previous output of the first or of the last input
\* carries None as value
NoneValueTxs ==
    {[vin |-> [i \in 1..ni |-> IF i = p THEN InNoValue(i) ELSE In(1000000, i)],
      vout |-> <<Out(1050000, 1), Out(1050000, 2)>>] :
        ni \in 2..3, p \in {1, 3}}

\* two inputs and two or three outputs, all scripts distinct; the output
\* values lie at and around the bounds d + epsilon_min and d + epsilon_max
\* of the pools 100_000, 1_000_000 and 5_000_000, or are 0
Tx0CandidateTxs ==
    UNION {
        {[vin |-> <<In(1000000, 1), In(1000000, 2)>>,
          vout |-> [i \in 1..no |-> Out(ov[i], i)]] :
            ov \in [1..no -> {0, 100099, 100100, 1050000, 1100000, 1100001,
                              5000100}]} :
        no \in 2..3}

\* two or three inputs, the first or the last of them spending a previous
\* output without a "value" key, under its own script or the script of its
\* neighbour; two equal outputs with distinct scripts
MissingValueTxs ==
    {[vin |-> [i \in 1..ni |->
                  IF i = p THEN InMissingValue(IF own THEN i ELSE 2)
                  ELSE In(1000000, i)],
      vout |-> <<Out(1050000, 1), Out(1050000, 2)>>] :
        ni \in 2..3, p \in {1, 3}, own \in BOOLEAN}

Transactions ==
    SmallTxs \cup MixShapedTxs \cup WasabiShapedTxs \cup Tx0ShapedTxs
    \cup NegativeAmountTxs \cup WasabiTieTxs \cup NoneValueTxs
    \cup Tx0CandidateTxs \cup MissingValueTxs
    \cup {MixExample, JoinMarketExample, WasabiExample, Tx0Example,
          PaymentExample}

----------------------------------------------------------------------------
(* The Blockstream client and the data processor before any call           *)

\* discover_cluster has not been called
NoDiscovery ==
    [pc |-> "idle", start_address |-> "", max_depth |-> 0, max_addresses |-> 0,
     discovered_addresses |-> {}, processing_queue |-> <<>>,
     processed_addresses |-> {}, process_address_calls |-> <<>>]

\* DataProcessor(db) on an empty database: _get_next_node_id() returns 1
EmptyDatabase ==
    /\ addresses_collection = <<>>
    /\ transactions_collection = <<>>
    /\ processing_collection = <<>>
    /\ next_node_id = 1

\* nothing of src/blockstream is running
BlockstreamIdle ==
    /\ discovery = NoDiscovery
    /\ rate_limiting = <<>>
    /\ clock = [day |-> 1, hour |-> 0]
    /\ requests = <<>>
    /\ EmptyDatabase
    /\ upstream = <<>>
    /\ process_calls = <<>>

----------------------------------------------------------------------------
(* The engine and its caller                                               *)

NotCalled == _negative_result("not called", <<>>)

\* CoinJoinDetectionHeuristic(), and a transaction the caller holds
Init ==
    /\ config = DefaultConfig
    /\ confidence_threshold = DefaultConfidenceThreshold
    /\ tx \in Transactions
    /\ pc = "submitted"
    /\ result = NotCalled
    /\ detectors_run = <<>>
    /\ relation = "none"
    /\ tx2 = tx
    /\ result2 = NotCalled
    /\ detectors_run2 = <<>>
    /\ picked = [wasabi_1 |-> 0, wasabi_2 |-> 0]
    /\ confidence_threshold2 = DefaultConfidenceThreshold
    /\ calls = <<>>
    /\ BlockstreamIdle

\* result = engine.analyze_transaction(tx)
AnalyzeTransaction ==
    /\ pc = "submitted"
    /\ \E picks \in MinPicks(config, tx) :
          LET r == analyze_transaction(config, confidence_threshold, tx, picks)
          IN  /\ result' = r.ret
              /\ detectors_run' = r.ran
              /\ picked' = picks
    /\ pc' = "analyzed"
    /\ UNCHANGED <<config, confidence_threshold, tx, relation, tx2, result2,
                   detectors_run2, confidence_threshold2, calls>>
    /\ UNCHANGED blockstream

\* what the min() calls return on t: the sets they run over are built from
\* the outputs in their order, so the same outputs give what they gave on tx
PicksOf(t) ==
    IF _extract_output_amounts(t.vout) = _extract_output_amounts(tx.vout)
    THEN {picked}
    ELSE MinPicks(config, t)

\* the caller builds a transaction t derived from tx and takes an engine
\* whose confidence_threshold is threshold; pc names how t derives from tx
AnalyzeDerived(rel, t, threshold) ==
    /\ pc = "analyzed"
    /\ relation = "none"
    /\ pc' = rel
    /\ tx2' = t
    /\ confidence_threshold2' = threshold
    /\ UNCHANGED <<config, confidence_threshold, tx, result, detectors_run,
                   relation, result2, detectors_run2, picked, calls>>
    /\ UNCHANGED blockstream

\* result2 = engine.analyze_transaction(tx2), the second call
AnalyzeSecond ==
    /\ pc \in {"coinbase_added", "permuted", "relabeled", "threshold"}
    /\ \E picks \in PicksOf(tx2) :
          LET r == analyze_transaction(config, confidence_threshold2, tx2,
                                       picks)
          IN  /\ result2' = r.ret
              /\ detectors_run2' = r.ran
    /\ relation' = pc
    /\ pc' = "analyzed"
    /\ UNCHANGED <<config, confidence_threshold, tx, result, detectors_run,
                   tx2, picked, confidence_threshold2, calls>>
    /\ UNCHANGED blockstream

\* s with element x inserted after position p
InsertAt(s, p, x) == SubSeq(s, 1, p) \o <<x>> \o SubSeq(s, p + 1, Len(s))

\* s with the elements at positions i and i + 1 exchanged
SwapAt(s, i) ==
    [k \in DOMAIN s |-> IF k = i THEN s[i + 1]
                        ELSE IF k = i + 1 THEN s[i] ELSE s[k]]

\* tx with one coinbase input added, first or last, is to be analyzed
AnalyzeWithCoinbaseInput ==
    \E p \in {0, Len(tx.vin)} :
        AnalyzeDerived("coinbase_added",
                       [tx EXCEPT !.vin = InsertAt(tx.vin, p, Coinbase)],
                       confidence_threshold)

\* tx with two neighbouring inputs exchanged is to be analyzed
AnalyzeWithInputsPermuted ==
    \E i \in 1..(Len(tx.vin) - 1) :
        AnalyzeDerived("permuted", [tx EXCEPT !.vin = SwapAt(tx.vin, i)],
                       confidence_threshold)

\* tx with two neighbouring outputs exchanged is to be analyzed
AnalyzeWithOutputsPermuted ==
    \E i \in 1..(Len(tx.vout) - 1) :
        AnalyzeDerived("permuted", [tx EXCEPT !.vout = SwapAt(tx.vout, i)],
                       confidence_threshold)

\* the fresh token standing for script s under the k-th relabeling
FreshScript(s, k) == 100 + k * s

\* t with every script replaced by its fresh token
Relabeled(t, k) ==
    [vin |-> [i \in DOMAIN t.vin |->
                 IF t.vin[i].prevout = <<>> THEN t.vin[i]
                 ELSE [prevout |-> <<[t.vin[i].prevout[1] EXCEPT
                          !.scriptpubkey = FreshScript(@, k)]>>]],
     vout |-> [j \in DOMAIN t.vout |->
                 [t.vout[j] EXCEPT !.scriptpubkey = FreshScript(@, k)]]]

\* tx with its scripts renamed one to one is to be analyzed
AnalyzeWithScriptsRelabeled ==
    \E k \in 1..2 :
        AnalyzeDerived("relabeled", Relabeled(tx, k), confidence_threshold)

\* values of self.confidence_threshold: 0.0, the floats around the scores
\* the detectors can return, and 1.5
Thresholds == {0, 7001, 8000, 9999, 10000, 15000}

\* tx is to be analyzed by an engine with another confidence_threshold
AnalyzeWithThreshold ==
    \E t \in Thresholds : AnalyzeDerived("threshold", tx, t)

\* the six detect_* methods called by the caller itself on the feature
\* record of tx, whatever its size
DetectDirectly ==
    /\ pc = "analyzed"
    /\ relation = "none"
    /\ ~HasNone(_extract_input_amounts(tx.vin))
    /\ relation' = "direct"
    /\ detectors_run2' =
          RunDetectors(config, AnalysisData(tx.vin, tx.vout), picked)
    /\ UNCHANGED <<config, confidence_threshold, tx, pc, result,
                   detectors_run, tx2, result2, picked,
                   confidence_threshold2, calls>>
    /\ UNCHANGED blockstream

Next ==
    \/ AnalyzeTransaction
    \/ AnalyzeWithCoinbaseInput
    \/ AnalyzeWithInputsPermuted
    \/ AnalyzeWithOutputsPermuted
    \/ AnalyzeWithScriptsRelabeled
    \/ AnalyzeWithThreshold
    \/ AnalyzeSecond
    \/ DetectDirectly

Spec == Init /\ [][Next]_vars

----------------------------------------------------------------------------
(* Calls running in threads of one engine.  A call takes a step for the     *)
(* part of analyze_transaction before the detectors, one step per detector  *)
(* and one for the arbiter; between two steps other threads run.            *)

\* the transactions the threads analyze
ConcurrentTxs ==
    {MixExample, JoinMarketExample, Tx0Example, PaymentExample,
     [vin |-> <<In(12000000, 1), In(12000000, 2)>>,
      vout |-> <<Out(10500000, 1), Out(9500000, 2)>>],
     [vin |-> <<InNoValue(1), In(1000000, 2)>>,
      vout |-> <<Out(1050000, 1), Out(1050000, 2)>>]}

\* a call of analyze_transaction(tx_data) about to start; analysis_data,
\* results and ret are locals of the call; seen and seen_threshold record
\* the values of self.config and self.confidence_threshold it has read, and
\* overlapped whether a detector of it ran while another call was between
\* two of its detectors
NewCall(tx_data, picks) ==
    [tx |-> tx_data, picks |-> picks, pc |-> "start",
     analysis_data |-> <<>>, results |-> <<>>, seen |-> <<>>,
     seen_threshold |-> <<>>, overlapped |-> FALSE, ret |-> <<>>]

NewCalls ==
    UNION {{NewCall(t, picks) : picks \in MinPicks(DefaultConfig, t)} :
              t \in ConcurrentTxs}

\* the caller holds nothing of its own while the threads run
InitThreads(n) ==
    /\ config = DefaultConfig
    /\ confidence_threshold = DefaultConfidenceThreshold
    /\ tx = PaymentExample
    /\ pc = "threads"
    /\ result = NotCalled
    /\ detectors_run = <<>>
    /\ relation = "none"
    /\ tx2 = tx
    /\ result2 = NotCalled
    /\ detectors_run2 = <<>>
    /\ picked = [wasabi_1 |-> 0, wasabi_2 |-> 0]
    /\ confidence_threshold2 = DefaultConfidenceThreshold
    /\ calls \in [1..n -> NewCalls]
    /\ BlockstreamIdle

\* two threads call analyze_transaction on one engine
InitConcurrent == InitThreads(2)

\* calls with the return value of call c set
Returned(c, r) == [calls EXCEPT ![c].ret = <<r>>, ![c].pc = "done"]

\* lines 72 to 103: the short circuits, the extraction, analysis_data
StartCall(c) ==
    /\ calls[c].pc = "start"
    /\ calls' =
          LET r == analyze_transaction(config, confidence_threshold,
                                       calls[c].tx, calls[c].picks)
          IN  IF \/ InsufficientStructure(calls[c].tx.vin, calls[c].tx.vout)
                 \/ NoAmounts(calls[c].tx.vin, calls[c].tx.vout)
                 \/ HasNone(_extract_input_amounts(calls[c].tx.vin))
              THEN Returned(c, r.ret)
              ELSE [calls EXCEPT
                       ![c].analysis_data =
                           <<AnalysisData(calls[c].tx.vin, calls[c].tx.vout)>>,
                       ![c].pc = "detect"]
    /\ UNCHANGED <<config, confidence_threshold, tx, pc, result,
                   detectors_run, relation, tx2, result2, detectors_run2,
                   picked, confidence_threshold2>>
    /\ UNCHANGED blockstream

\* another call has run some of its detectors and not yet all of them
OtherCallMidway(c) ==
    \E d \in DOMAIN calls \ {c} :
        /\ calls[d].pc = "detect"
        /\ Len(calls[d].results) \in 1..5

\* ResultsAfter with the verdicts kept in one list shared by the calls
ResultsAfterShared(c, entry) ==
    [d \in DOMAIN calls |->
        IF d = c \/ calls[d].pc = "detect"
        THEN [calls[d] EXCEPT !.results = Append(@, entry),
                              !.seen = Append(@, config),
                              !.overlapped = @ \/ OtherCallMidway(d)]
        ELSE calls[d]]

\* joinmarket_result = self.detect_joinmarket_v2(analysis_data) and the
\* five assignments after it: a local of call c receives the verdict
ResultsAfter(c, entry) ==
    [calls EXCEPT ![c].results = Append(@, entry),
                  ![c].seen = Append(@, config),
                  ![c].overlapped = @ \/ OtherCallMidway(c)]

\* lines 106 to 111, one detector call: it reads self.config
DetectStep(c) ==
    /\ calls[c].pc = "detect"
    /\ Len(calls[c].results) < 6
    /\ calls' =
          ResultsAfter(c, RunDetectors(config, calls[c].analysis_data[1],
                                       calls[c].picks)
                              [Len(calls[c].results) + 1])
    /\ UNCHANGED <<config, confidence_threshold, tx, pc, result,
                   detectors_run, relation, tx2, result2, detectors_run2,
                   picked, confidence_threshold2>>
    /\ UNCHANGED blockstream

\* lines 114 to 148: the loop reads self.confidence_threshold, then return
ArbiterStep(c) ==
    /\ calls[c].pc = "detect"
    /\ Len(calls[c].results) >= 6
    /\ calls' =
          [Returned(c, SelectBestMatch(calls[c].results, confidence_threshold,
                                       calls[c].analysis_data[1]).ret)
              EXCEPT ![c].seen_threshold = <<confidence_threshold>>]
    /\ UNCHANGED <<config, confidence_threshold, tx, pc, result,
                   detectors_run, relation, tx2, result2, detectors_run2,
                   picked, confidence_threshold2>>
    /\ UNCHANGED blockstream

CallStep(c) == StartCall(c) \/ DetectStep(c) \/ ArbiterStep(c)

NextConcurrent == \E c \in DOMAIN calls : CallStep(c)

SpecConcurrent == InitConcurrent /\ [][NextConcurrent]_vars

\* what the caller can assign to engine.config and to
\* engine.confidence_threshold, plain attributes of the instance: no
\* denomination, no pool, another amax, thresholds -0.1 and 1.5
Reconfigurations ==
    {[config |-> [DefaultConfig EXCEPT
                     !.wasabi_2_0.denominations_satoshis = <<>>],
      confidence_threshold |-> DefaultConfidenceThreshold],
     [config |-> [DefaultConfig EXCEPT !.whirlpool_pools = <<>>],
      confidence_threshold |-> DefaultConfidenceThreshold],
     [config |-> [DefaultConfig EXCEPT !.wasabi_1_0.amax = 1],
      confidence_threshold |-> DefaultConfidenceThreshold],
     [config |-> DefaultConfig, confidence_threshold |-> -1000],
     [config |-> DefaultConfig, confidence_threshold |-> 15000]}

\* engine.config[...] = ... or engine.confidence_threshold = ..., once
Reconfigure ==
    /\ config = DefaultConfig
    /\ confidence_threshold = DefaultConfidenceThreshold
    /\ \E r \in Reconfigurations :
          /\ config' = r.config
          /\ confidence_threshold' = r.confidence_threshold
    /\ UNCHANGED <<tx, pc, result, detectors_run, relation, tx2, result2,
                   detectors_run2, picked, confidence_threshold2, calls>>
    /\ UNCHANGED blockstream

\* one thread calls analyze_transaction, another may assign the attributes
InitReconfigured == InitThreads(1)

NextReconfigured == NextConcurrent \/ Reconfigure

SpecReconfigured == InitReconfigured /\ [][NextReconfigured]_vars

----------------------------------------------------------------------------
(* Properties                                                              *)

Analyzed == pc = "analyzed"

\* the six confidences of the first call, in detector order
Confidences == [i \in DOMAIN detectors_run |-> detectors_run[i][2].confidence]

\* the first detector, in the fixed order, that has the greatest confidence
FirstMaximal ==
    CHOOSE i \in DOMAIN Confidences :
        /\ \A j \in DOMAIN Confidences : Confidences[j] <= Confidences[i]
        /\ \A j \in 1..(i - 1) : Confidences[j] < Confidences[i]

FixedOrder ==
    <<"joinmarket", "wasabi_1_0", "wasabi_1_1", "wasabi_2_0",
      "whirlpool_tx0", "whirlpool_mix">>

\* C1: for every transaction that reaches the detectors, when the greatest
\* of the six confidences is at least confidence_threshold the reported
\* variant is the detector with that confidence, the earliest one in the
\* fixed order when several share it
C1_WinnerIsFirstMaximal ==
    (Analyzed /\ detectors_run # <<>>) =>
        /\ [i \in DOMAIN detectors_run |-> detectors_run[i][1]] = FixedOrder
        /\ (Confidences[FirstMaximal] >= confidence_threshold =>
              /\ result.is_coinjoin
              /\ result.coinjoin_type = FixedOrder[FirstMaximal]
              /\ result.confidence = Confidences[FirstMaximal])

\* a later detector ties with the winner at the maximum
C1_Witness ==
    /\ Analyzed /\ detectors_run # <<>>
    /\ Confidences[FirstMaximal] >= confidence_threshold
    /\ \E j \in DOMAIN Confidences :
          j > FirstMaximal /\ Confidences[j] = Confidences[FirstMaximal]
    /\ result.coinjoin_type = FixedOrder[FirstMaximal]

\* C2: every confidence a detector returns lies in [0, 1], also when all
\* five conditions of Wasabi 1.1 or Wasabi 2.0 hold and on early returns
C2_ConfidenceInUnitInterval ==
    /\ \A i \in DOMAIN detectors_run :
          /\ 0 <= detectors_run[i][2].confidence
          /\ detectors_run[i][2].confidence <= 10000
    /\ \A i \in DOMAIN detectors_run2 :
          /\ 0 <= detectors_run2[i][2].confidence
          /\ detectors_run2[i][2].confidence <= 10000

\* all five conditions of Wasabi 1.1 and of Wasabi 2.0 hold, and another
\* detector returned early
C2_Witness ==
    /\ Analyzed /\ detectors_run # <<>>
    /\ detectors_run[3][2].conditions_met = <<TRUE, TRUE, TRUE, TRUE, TRUE>>
    /\ detectors_run[3][2].confidence = 10000
    /\ detectors_run[4][2].conditions_met = <<TRUE, TRUE, TRUE, TRUE, TRUE>>
    /\ detectors_run[4][2].confidence = 10000
    /\ detectors_run[5][2].diagnostic = "reason"
    /\ detectors_run[5][2].confidence = 0

----------------------------------------------------------------------------
(* What a caller sees of one analysis, and the shapes the scenarios name   *)

\* the second analysis has been made, by the engine of the first
AnalyzedTwice == relation \in {"coinbase_added", "permuted", "relabeled"}

\* is_coinjoin, variant, confidence, participants and denomination
Classification(r) ==
    <<r.is_coinjoin, r.coinjoin_type, r.confidence, r.coinjoin_participants,
      r.coinjoin_denomination>>

\* confidence, participants and denomination of one detector verdict
VerdictCore(v) == <<v.confidence, v.participants, v.denomination>>

\* the inputs of t that carry a previous output
NonCoinbase(t) == {i \in DOMAIN t.vin : t.vin[i].prevout # <<>>}

\* every previous output of t carries an integer value
WellTyped(t) ==
    \A i \in NonCoinbase(t) : PrevValue(t.vin[i].prevout[1]) # <<>>

InputScriptsOf(t) == {t.vin[i].prevout[1].scriptpubkey : i \in NonCoinbase(t)}

OutputScriptsOf(t) == {t.vout[j].scriptpubkey : j \in DOMAIN t.vout}

\* the number of outputs of t worth v
Multiplicity(t, v) == Cardinality({j \in DOMAIN t.vout : t.vout[j].value = v})

\* how often the most frequent output value of t occurs
MostFrequent(t) ==
    MaxOf({0} \cup {Multiplicity(t, t.vout[j].value) : j \in DOMAIN t.vout})

PoolDenominations ==
    {PoolsSatoshis(config.whirlpool_pools)[k][1] :
        k \in DOMAIN config.whirlpool_pools}

\* five inputs with five scripts and values in [d, d + epsilon_max], one to
\* four of them above d; five outputs worth d with five scripts
IsMixShaped(t, d) ==
    /\ Len(t.vin) = 5
    /\ Len(t.vout) = 5
    /\ NonCoinbase(t) = DOMAIN t.vin
    /\ Cardinality(InputScriptsOf(t)) = 5
    /\ \A i \in DOMAIN t.vin :
          /\ t.vin[i].prevout[1].value # <<>>
          /\ d <= t.vin[i].prevout[1].value[1]
          /\ t.vin[i].prevout[1].value[1]
                <= d + config.whirlpool_mix.epsilon_max
    /\ Cardinality({i \in DOMAIN t.vin : t.vin[i].prevout[1].value[1] > d})
          \in 1..4
    /\ \A j \in DOMAIN t.vout : t.vout[j].value = d
    /\ Cardinality(OutputScriptsOf(t)) = 5

\* ten inputs over eight scripts; eleven outputs with eleven scripts, eight
\* worth 10_000_000 and three smaller
IsWasabi10Shaped(t) ==
    /\ Len(t.vin) = 10
    /\ NonCoinbase(t) = DOMAIN t.vin
    /\ Cardinality(InputScriptsOf(t)) = 8
    /\ Len(t.vout) = 11
    /\ Cardinality(OutputScriptsOf(t)) = 11
    /\ Multiplicity(t, 10000000) = 8
    /\ \A j \in DOMAIN t.vout : t.vout[j].value <= 10000000

\* the Tx0 outputs of the scenario, and at least two inputs, all with
\* previous outputs
IsTx0Shaped(t) ==
    /\ [j \in DOMAIN t.vout |-> t.vout[j].value]
          = <<1050000, 1050000, 1050000, 1050000, 1050000, 50000, 0>>
    /\ Len(t.vin) >= 2
    /\ NonCoinbase(t) = DOMAIN t.vin

\* the most frequent output value makes up half of the outputs or more, at
\* least three input scripts, every output its own script
IsJoinMarketShaped(t) ==
    /\ WellTyped(t)
    /\ Len(t.vout) >= 1
    /\ 2 * MostFrequent(t) >= Len(t.vout)
    /\ Cardinality(InputScriptsOf(t)) >= 3
    /\ Cardinality(OutputScriptsOf(t)) = Len(t.vout)

----------------------------------------------------------------------------
(* The end-to-end scenarios                                                *)

MixIsWhirlpoolMix(t, r) ==
    \A d \in PoolDenominations :
        IsMixShaped(t, d) =>
            /\ r.is_coinjoin
            /\ r.coinjoin_type = "whirlpool_mix"
            /\ r.confidence = 10000
            /\ r.coinjoin_participants = <<5>>
            /\ r.coinjoin_denomination = <<d>>

\* C3: a Whirlpool Mix shaped transaction around a pool denomination d is
\* reported as whirlpool_mix with confidence 1.0, 5 participants and
\* denomination d
C3_MixIsWhirlpoolMix ==
    /\ Analyzed => MixIsWhirlpoolMix(tx, result)
    /\ AnalyzedTwice => MixIsWhirlpoolMix(tx2, result2)

\* the scenario of the specification: the Whirlpool Mix detector returns 1.0
\* with 5 and d, the JoinMarket detector before it returns 1.0 as well, and
\* the engine reports joinmarket
C3_ShadowedByJoinMarket ==
    /\ Analyzed
    /\ tx = MixExample
    /\ IsMixShaped(tx, 1000000)
    /\ VerdictCore(detectors_run[6][2]) = <<10000, <<5>>, <<1000000>> >>
    /\ detectors_run[1][2].confidence = 10000
    /\ result.coinjoin_type = "joinmarket"

WasabiIsWasabi10(t, r) ==
    IsWasabi10Shaped(t) =>
        /\ r.is_coinjoin
        /\ r.coinjoin_type = "wasabi_1_0"
        /\ r.confidence >= 9000
        /\ r.coinjoin_participants = <<8>>
        /\ r.coinjoin_denomination = <<10000000>>

\* C4: a Wasabi 1.0 shaped transaction is reported as wasabi_1_0 with
\* confidence at least 0.9, 8 participants and denomination 10_000_000
C4_WasabiIsWasabi10 ==
    /\ Analyzed => WasabiIsWasabi10(tx, result)
    /\ AnalyzedTwice => WasabiIsWasabi10(tx2, result2)

\* the scenario of the specification: the Wasabi 1.0 detector returns the
\* float just below 1.0 with 8 and 10_000_000, the JoinMarket detector
\* returns 1.0, and the engine reports joinmarket
C4_ShadowedByJoinMarket ==
    /\ Analyzed
    /\ tx = WasabiExample
    /\ IsWasabi10Shaped(tx)
    /\ VerdictCore(detectors_run[2][2]) = <<9999, <<8>>, <<10000000>> >>
    /\ detectors_run[1][2].confidence = 10000
    /\ result.coinjoin_type = "joinmarket"

Tx0IsWhirlpoolTx0(t, r) ==
    IsTx0Shaped(t) =>
        /\ r.is_coinjoin
        /\ r.coinjoin_type = "whirlpool_tx0"
        /\ r.coinjoin_participants = <<5>>
        /\ r.coinjoin_denomination = <<1000000>>
        /\ r.confidence >= 9000

\* C5: a transaction with the Tx0 outputs of the scenario and at least two
\* inputs with previous outputs is reported as whirlpool_tx0 with 5
\* participants, denomination 1_000_000 and confidence at least 0.9,
\* whatever its inputs and scripts
C5_Tx0IsWhirlpoolTx0 ==
    /\ Analyzed => Tx0IsWhirlpoolTx0(tx, result)
    /\ AnalyzedTwice => Tx0IsWhirlpoolTx0(tx2, result2)

\* three input scripts and seven output scripts: the Tx0 detector returns
\* the float just below 1.0 with 5 and 1_000_000, the JoinMarket detector
\* returns 1.0, and the engine reports joinmarket
C5_ShadowedByJoinMarket ==
    /\ Analyzed
    /\ IsTx0Shaped(tx)
    /\ Cardinality(InputScriptsOf(tx)) = 3
    /\ Cardinality(OutputScriptsOf(tx)) = 7
    /\ VerdictCore(detectors_run[5][2]) = <<9999, <<5>>, <<1000000>> >>
    /\ detectors_run[1][2].confidence = 10000
    /\ result.coinjoin_type = "joinmarket"

JoinMarketVerdict(t, r) ==
    /\ r.is_coinjoin
    /\ r.coinjoin_type = "joinmarket"
    /\ r.confidence >= 7000
    /\ r.coinjoin_participants = <<MostFrequent(t)>>
    /\ Len(r.coinjoin_denomination) = 1
    /\ Multiplicity(t, r.coinjoin_denomination[1]) = MostFrequent(t)

\* the statement of C6 as the specification has it: every JoinMarket shaped
\* transaction is reported as joinmarket
C6_AsStated ==
    /\ (Analyzed /\ IsJoinMarketShaped(tx)) => JoinMarketVerdict(tx, result)
    /\ (AnalyzedTwice /\ IsJoinMarketShaped(tx2))
          => JoinMarketVerdict(tx2, result2)

\* C6: a transaction with at least two outputs whose most frequent output
\* value occurs n >= |outputs|/2 times, with at least 3 distinct input
\* scripts and a distinct script on every output, is reported as joinmarket
\* with confidence at least 0.7, n participants and a denomination that
\* occurs n times among the outputs
C6_JoinMarketWithTwoOutputs ==
    /\ (Analyzed /\ IsJoinMarketShaped(tx) /\ Len(tx.vout) >= 2)
          => JoinMarketVerdict(tx, result)
    /\ (AnalyzedTwice /\ IsJoinMarketShaped(tx2) /\ Len(tx2.vout) >= 2)
          => JoinMarketVerdict(tx2, result2)

\* the scenario of the specification, reported with 3 and 3_000_000
C6_Witness ==
    /\ Analyzed
    /\ tx = JoinMarketExample
    /\ IsJoinMarketShaped(tx)
    /\ result.coinjoin_type = "joinmarket"
    /\ result.confidence >= 7000
    /\ result.coinjoin_participants = <<3>>
    /\ result.coinjoin_denomination = <<3000000>>

----------------------------------------------------------------------------
(* The short circuit and coinbase inputs                                   *)

\* a negative classification with a reason, made without running a detector
\* and carrying no detector verdict
NegativeWithoutDetectors(r, ran) ==
    /\ ~r.is_coinjoin
    /\ r.coinjoin_type = "None"
    /\ r.analysis.reason # ""
    /\ r.analysis.all_detections = <<>>
    /\ r.analysis.service_analysis = <<>>
    /\ ran = <<>>

\* C7: a transaction with fewer than 2 inputs or fewer than 2 outputs gets
\* is_coinjoin = false with a reason; no detector is run and the result
\* carries no detector verdict
C7_ShortCircuit ==
    /\ (Analyzed /\ (Len(tx.vin) < 2 \/ Len(tx.vout) < 2))
          => NegativeWithoutDetectors(result, detectors_run)
    /\ (AnalyzedTwice /\ (Len(tx2.vin) < 2 \/ Len(tx2.vout) < 2))
          => NegativeWithoutDetectors(result2, detectors_run2)

\* the plain payment of the specification, one input and two outputs
C7_Witness ==
    /\ Analyzed
    /\ tx = PaymentExample
    /\ Len(tx.vin) < 2
    /\ NegativeWithoutDetectors(result, detectors_run)

\* C8: a transaction with fewer than 2 inputs carrying a previous output
\* gets a negative classification and no detector is run, also when
\* coinbase inputs bring its input list to 2 entries or more
C8_ShortCircuitCountsNonCoinbase ==
    /\ (Analyzed /\ Cardinality(NonCoinbase(tx)) < 2)
          => (~result.is_coinjoin /\ detectors_run = <<>>)
    /\ (AnalyzedTwice /\ Cardinality(NonCoinbase(tx2)) < 2)
          => (~result2.is_coinjoin /\ detectors_run2 = <<>>)

\* one coinbase input and one input with a previous output: the six
\* detectors run and the engine reports a CoinJoin
C8_CoinbaseCounted ==
    /\ Analyzed
    /\ Len(tx.vin) = 2
    /\ Cardinality(NonCoinbase(tx)) = 1
    /\ Len(detectors_run) = 6
    /\ result.is_coinjoin

\* C9: a transaction and the same transaction with one coinbase input added
\* get the same is_coinjoin, variant, confidence, participants and
\* denomination
C9_CoinbaseSafety ==
    relation = "coinbase_added" =>
        Classification(result2) = Classification(result)

\* a transaction with one input is negative, and with a coinbase input
\* added it is reported as a CoinJoin
C9_CoinbaseChangesVerdict ==
    /\ relation = "coinbase_added"
    /\ Len(tx.vin) = 1
    /\ Len(tx2.vin) = 2
    /\ ~result.is_coinjoin
    /\ result2.is_coinjoin

----------------------------------------------------------------------------
(* The order of inputs and outputs                                         *)

\* C10: a transaction and the same transaction with its inputs or its
\* outputs reordered get the same classification and, from each of the six
\* detectors, the same confidence, participants and denomination
C10_OrderIndependence ==
    relation = "permuted" =>
        /\ Classification(result2) = Classification(result)
        /\ Len(detectors_run2) = Len(detectors_run)
        /\ \A i \in DOMAIN detectors_run :
              VerdictCore(detectors_run2[i][2])
                  = VerdictCore(detectors_run[i][2])

\* two output values share the greatest multiplicity and exchanging two
\* outputs changes the denomination the engine reports
C10_DenominationFollowsOrder ==
    /\ relation = "permuted"
    /\ tx2.vin = tx.vin
    /\ Cardinality({v \in {tx.vout[j].value : j \in DOMAIN tx.vout} :
                       Multiplicity(tx, v) = MostFrequent(tx)}) >= 2
    /\ result.is_coinjoin
    /\ result2.is_coinjoin
    /\ result.coinjoin_type = result2.coinjoin_type
    /\ result.coinjoin_denomination # result2.coinjoin_denomination

----------------------------------------------------------------------------
(* Scripts as opaque tokens                                                *)

\* C11: a transaction and the same transaction with every script replaced
\* by a fresh token, distinct scripts by distinct tokens, get the same
\* classification and the same six detector verdicts
C11_ScriptRelabeling ==
    relation = "relabeled" =>
        /\ Classification(result2) = Classification(result)
        /\ detectors_run2 = detectors_run

\* a CoinJoin whose scripts were all renamed: no script of the one
\* transaction occurs in the other
C11_Witness ==
    /\ relation = "relabeled"
    /\ InputScriptsOf(tx2) \cap InputScriptsOf(tx) = {}
    /\ OutputScriptsOf(tx2) \cap OutputScriptsOf(tx) = {}
    /\ Cardinality(OutputScriptsOf(tx)) \in 2..(Len(tx.vout) - 1)
    /\ result.is_coinjoin
    /\ Classification(result2) = Classification(result)

----------------------------------------------------------------------------
(* The threshold                                                           *)

\* positive under the higher threshold implies positive under the lower one,
\* with the same variant
Monotone(lower, higher) ==
    higher.is_coinjoin =>
        /\ lower.is_coinjoin
        /\ lower.coinjoin_type = higher.coinjoin_type

\* C12: of two analyses of one transaction under thresholds t1 <= t2, the
\* one under t2 being positive implies the one under t1 is positive and
\* names the same variant
C12_ThresholdMonotonicity ==
    relation = "threshold" =>
        /\ confidence_threshold <= confidence_threshold2
              => Monotone(result, result2)
        /\ confidence_threshold2 <= confidence_threshold
              => Monotone(result2, result)

\* under the lower threshold a detector scoring below the higher threshold
\* qualifies first, and the variant is still the one of the higher threshold
C12_Witness ==
    /\ relation = "threshold"
    /\ confidence_threshold2 < confidence_threshold
    /\ \E i \in DOMAIN detectors_run2 :
          /\ detectors_run2[i][2].confidence >= confidence_threshold2
          /\ detectors_run2[i][2].confidence > 0
          /\ detectors_run2[i][2].confidence < confidence_threshold
          /\ \A j \in 1..(i - 1) : detectors_run2[j][2].confidence = 0
    /\ result.is_coinjoin
    /\ result2.is_coinjoin
    /\ result2.coinjoin_type = result.coinjoin_type

----------------------------------------------------------------------------
(* Negative classifications                                                *)

\* C13: when the detectors ran and none reached the threshold, the negative
\* classification carries the six detector verdicts, keyed by variant in
\* the fixed order
C13_NegativeCarriesVerdicts ==
    (Analyzed /\ detectors_run # <<>> /\ ~result.is_coinjoin) =>
        /\ Len(result.analysis.all_detections) = 6
        /\ result.analysis.all_detections = detectors_run

\* six detectors ran, none reached the threshold, and the classification
\* returned holds the feature record but no verdict
C13_VerdictsDropped ==
    /\ Analyzed
    /\ Len(detectors_run) = 6
    /\ ~result.is_coinjoin
    /\ result.analysis.reason = "No CoinJoin pattern detected above threshold"
    /\ result.analysis.transaction_structure # <<>>
    /\ result.analysis.all_detections = <<>>

\* some input or output amount of t is a negative integer
HasNegativeAmount(t) ==
    \/ \E i \in NonCoinbase(t) :
          /\ PrevValue(t.vin[i].prevout[1]) # <<>>
          /\ PrevValue(t.vin[i].prevout[1])[1] < 0
    \/ \E j \in DOMAIN t.vout : t.vout[j].value < 0

\* C14: a transaction with a negative input or output amount gets a
\* negative classification with reason "invalid amount"
C14_InvalidAmount ==
    (Analyzed /\ HasNegativeAmount(tx)) =>
        /\ ~result.is_coinjoin
        /\ result.analysis.reason = "invalid amount"

\* two outputs of -5000 satoshis are reported as a JoinMarket CoinJoin of
\* denomination -5000
C14_NegativeAmountClassified ==
    /\ Analyzed
    /\ HasNegativeAmount(tx)
    /\ result.is_coinjoin
    /\ result.coinjoin_type = "joinmarket"
    /\ result.coinjoin_denomination = <<-5000>>

----------------------------------------------------------------------------
(* Configuration, errors and concurrency                                   *)

\* a Wasabi 2.0 denomination set and a pool list that are not empty, and a
\* threshold in [0, 1]
WellConfigured(cfg, threshold) ==
    /\ cfg.wasabi_2_0.denominations_satoshis # <<>>
    /\ cfg.whirlpool_pools # <<>>
    /\ threshold \in 0..10000

\* the verdicts call c holds that carry the diagnostic d
VerdictsWith(c, d) ==
    {k \in DOMAIN calls[c].results : calls[c].results[k][2].diagnostic = d}

\* C15: no call of analyze_transaction runs with an empty Wasabi 2.0
\* denomination set, an empty pool list or a threshold outside [0, 1], and
\* no detector verdict of a call is an error
C15_NoMisconfiguredCall ==
    \A c \in DOMAIN calls :
        /\ \A k \in DOMAIN calls[c].seen :
              WellConfigured(calls[c].seen[k], DefaultConfidenceThreshold)
        /\ \A k \in DOMAIN calls[c].seen_threshold :
              WellConfigured(DefaultConfig, calls[c].seen_threshold[k])
        /\ VerdictsWith(c, "error") = {}

\* a call has returned whose wasabi_2_0 detector read an empty denomination
\* set and answered with an error verdict
C15_MisconfigurationSurfaces ==
    \E c \in DOMAIN calls :
        /\ calls[c].pc = "done"
        /\ Len(calls[c].results) = 6
        /\ calls[c].seen[4].wasabi_2_0.denominations_satoshis = <<>>
        /\ VerdictsWith(c, "error") = {4}

\* C16: a call that has not returned can take its next step; a verdict with
\* an error or reason diagnostic has confidence 0.0 and the call that holds
\* it goes on to the six verdicts; a call that fails before the detectors
\* returns a negative classification with confidence 0.0
C16_NeverRaises ==
    \A c \in DOMAIN calls :
        /\ calls[c].pc # "done" =>
              \/ calls[c].pc = "start"
              \/ calls[c].pc = "detect" /\ Len(calls[c].results) \in 0..6
        /\ \A k \in DOMAIN calls[c].results :
              calls[c].results[k][2].diagnostic # "" =>
                  calls[c].results[k][2].confidence = 0
        /\ (calls[c].pc = "done" /\ calls[c].analysis_data # <<>>) =>
              Len(calls[c].results) = 6
        /\ calls[c].pc = "done" =>
              /\ Len(calls[c].ret) = 1
              /\ calls[c].analysis_data = <<>> =>
                    /\ ~calls[c].ret[1].is_coinjoin
                    /\ calls[c].ret[1].confidence = 0
                    /\ calls[c].ret[1].analysis.reason # ""
              /\ HasNone(_extract_input_amounts(calls[c].tx.vin)) =>
                    calls[c].ret[1].analysis.reason = "Analysis error"

\* a call has returned a CoinJoin although its wasabi_2_0 detector failed on
\* an empty denomination set: the five other verdicts were evaluated
C16_Witness ==
    \E c \in DOMAIN calls :
        /\ calls[c].pc = "done"
        /\ VerdictsWith(c, "error") = {4}
        /\ calls[c].results[4][2].confidence = 0
        /\ Len(calls[c].results) = 6
        /\ calls[c].results[6][2].diagnostic = ""
        /\ calls[c].ret[1].is_coinjoin

\* C17: whatever the interleaving of the calls, the engine keeps its
\* configuration and threshold, a call holds the verdicts it holds when run
\* alone, and it returns the classification it returns when run alone
C17_NoCoordination ==
    /\ config = DefaultConfig
    /\ confidence_threshold = DefaultConfidenceThreshold
    /\ \A c \in DOMAIN calls :
          /\ calls[c].pc = "detect" =>
                /\ Len(calls[c].results) <= 6
                /\ calls[c].results =
                      SubSeq(RunDetectors(DefaultConfig,
                                          AnalysisData(calls[c].tx.vin,
                                                       calls[c].tx.vout),
                                          calls[c].picks),
                             1, Len(calls[c].results))
          /\ calls[c].pc = "done" =>
                calls[c].ret =
                    <<analyze_transaction(DefaultConfig,
                                          DefaultConfidenceThreshold,
                                          calls[c].tx, calls[c].picks).ret>>

\* two calls on different transactions have run their detectors in turns
\* and have returned, one a CoinJoin of denomination 1000000 and the other
\* a CoinJoin of denomination 3000000
C17_Witness ==
    /\ calls[1].pc = "done"
    /\ calls[2].pc = "done"
    /\ calls[1].overlapped
    /\ calls[2].overlapped
    /\ calls[1].tx = MixExample
    /\ calls[2].tx = JoinMarketExample
    /\ calls[1].ret[1].coinjoin_denomination = <<1000000>>
    /\ calls[2].ret[1].coinjoin_denomination = <<3000000>>

\* C18: the engine keeps the configuration and the threshold it was
\* constructed with, and every detector and the arbiter of an analysis read
\* these values
C18_ConfigurationFrozen ==
    /\ config = DefaultConfig
    /\ confidence_threshold = DefaultConfidenceThreshold
    /\ \A c \in DOMAIN calls :
          /\ \A k \in DOMAIN calls[c].seen : calls[c].seen[k] = DefaultConfig
          /\ \A k \in DOMAIN calls[c].seen_threshold :
                calls[c].seen_threshold[k] = DefaultConfidenceThreshold

\* the first detectors of a returned analysis read the configuration of the
\* construction and the last ones another
C18_ChangedMidAnalysis ==
    \E c \in DOMAIN calls :
        /\ calls[c].pc = "done"
        /\ Len(calls[c].seen) = 6
        /\ calls[c].seen[1] = DefaultConfig
        /\ calls[c].seen[6] # DefaultConfig

----------------------------------------------------------------------------
(* Single detectors                                                        *)

\* the first output value of t, in output order, that occurs as often as
\* the most frequent one
FirstMostFrequent(t) ==
    LET first == CHOOSE j \in DOMAIN t.vout :
                    /\ Multiplicity(t, t.vout[j].value) = MostFrequent(t)
                    /\ \A k \in 1..(j - 1) :
                          Multiplicity(t, t.vout[k].value) # MostFrequent(t)
    IN  t.vout[first].value

\* 0.4*[n >= |outputs|/2] + 0.4*[nscripts_in >= 3] + 0.2*[|outputs| =
\* nscripts_out], participants n, denomination the first most frequent value
JoinMarketFormula(t, verdict) ==
    Len(t.vout) >= 1 =>
        VerdictCore(verdict) =
            <<Score(0, << <<2 * MostFrequent(t) >= Len(t.vout), 4000>>,
                          <<Cardinality(InputScriptsOf(t)) >= 3, 4000>>,
                          <<Len(t.vout) = Cardinality(OutputScriptsOf(t)),
                            2000>> >>),
              <<MostFrequent(t)>>,
              <<FirstMostFrequent(t)>> >>

\* C19: on a feature record with outputs, detect_joinmarket_v2 returns the
\* weighted sum of its three conditions as confidence, the greatest
\* multiplicity n of an output value as participants and the first output
\* value of multiplicity n as denomination; input amounts play no part
C19_JoinMarketFormula ==
    /\ (Analyzed /\ detectors_run # <<>>)
          => JoinMarketFormula(tx, detectors_run[1][2])
    /\ (relation = "direct" \/ (AnalyzedTwice /\ detectors_run2 # <<>>))
          => JoinMarketFormula(tx2, detectors_run2[1][2])

\* the detector called on the feature record of a transaction with a
\* single input and two output values of the same multiplicity, the greater
\* of which comes first
C19_Witness ==
    /\ relation = "direct"
    /\ Len(tx.vin) = 1
    /\ Len(tx.vout) = 2
    /\ MostFrequent(tx) = 1
    /\ tx.vout[1].value > tx.vout[2].value
    /\ Cardinality(InputScriptsOf(tx)) = 1
    /\ VerdictCore(detectors_run2[1][2])
          = <<6001, <<1>>, <<tx.vout[1].value>> >>

\* the most frequent output values of t closest to the 10_000_000 target
ClosestToTarget(t) ==
    LET most == {v \in {t.vout[j].value : j \in DOMAIN t.vout} :
                    Multiplicity(t, v) = MostFrequent(t)}
    IN  {v \in most : \A u \in most : Abs(v - 10000000) <= Abs(u - 10000000)}

\* C20: detect_wasabi_1_0 and detect_wasabi_1_1 report as denomination the
\* most frequent output value closest to 10_000_000, the smaller one when
\* two are equally close, whatever the order of the outputs
C20_SmallestOnTie ==
    (Analyzed /\ detectors_run # <<>>) =>
        /\ detectors_run[2][2].denomination
              = <<CHOOSE v \in ClosestToTarget(tx) :
                     \A u \in ClosestToTarget(tx) : v <= u>>
        /\ detectors_run[3][2].denomination = detectors_run[2][2].denomination

\* outputs 10_500_000 then 9_500_000: both detectors report 10_500_000
C20_LargerOnTie ==
    /\ Analyzed
    /\ [j \in DOMAIN tx.vout |-> tx.vout[j].value] = <<10500000, 9500000>>
    /\ ClosestToTarget(tx) = {9500000, 10500000}
    /\ detectors_run[2][2].denomination = <<10500000>>
    /\ detectors_run[3][2].denomination = <<10500000>>

\* the confidence Wasabi 1.1 derives from the Wasabi 1.0 confidence c when
\* the most frequent output value occurs n times: min(1.0, c + 0.1) for
\* n <= 3, c otherwise
Wasabi11From(c, n) ==
    IF n > 3 THEN c
    ELSE IF FloatAdd(c, 1000) <= 10000 THEN FloatAdd(c, 1000) ELSE 10000

\* the verdict w11 of detect_wasabi_1_1 follows from the verdict w10 of
\* detect_wasabi_1_0 on the same feature record
Wasabi11Refines(w10, w11) ==
    /\ w11.diagnostic = w10.diagnostic
    /\ w11.participants = w10.participants
    /\ w11.denomination = w10.denomination
    /\ w11.confidence >= w10.confidence
    /\ w10.diagnostic = "" =>
          /\ SubSeq(w11.conditions_met, 1, 4) = w10.conditions_met
          /\ w11.conditions_met[5] = (w10.participants[1] <= 3)
          /\ w11.confidence = Wasabi11From(w10.confidence, w10.participants[1])

\* a classification r that names Wasabi 1.1 comes with at most three
\* participants and a Wasabi 1.0 verdict below 1.0
Wasabi11Wins(r, w10) ==
    r.coinjoin_type = "wasabi_1_1" =>
        /\ w10.participants[1] <= 3
        /\ w10.confidence < 10000

\* C21: detect_wasabi_1_1 evaluates the four conditions of detect_wasabi_1_0
\* with the same values, reports the same participants and denomination, has
\* confidence min(1.0, Wasabi 1.0 confidence + 0.1 if n <= 3), never below
\* the Wasabi 1.0 confidence, and wins only with n <= 3 over a Wasabi 1.0
\* confidence below 1.0
C21_Wasabi11RefinesWasabi10 ==
    /\ (Analyzed /\ detectors_run # <<>>) =>
          /\ Wasabi11Refines(detectors_run[2][2], detectors_run[3][2])
          /\ Wasabi11Wins(result, detectors_run[2][2])
    /\ (relation # "none" /\ detectors_run2 # <<>>) =>
          /\ Wasabi11Refines(detectors_run2[2][2], detectors_run2[3][2])
          /\ relation # "direct" =>
                Wasabi11Wins(result2, detectors_run2[2][2])

\* Wasabi 1.1 is the reported variant: its four shared conditions hold, two
\* participants, confidence 1.0 over the 0.9999999999999999 of Wasabi 1.0
C21_Witness ==
    /\ Analyzed
    /\ result.coinjoin_type = "wasabi_1_1"
    /\ detectors_run[2][2].conditions_met = <<TRUE, TRUE, TRUE, TRUE>>
    /\ detectors_run[2][2].confidence = 9999
    /\ detectors_run[3][2].confidence = 10000
    /\ detectors_run[3][2].participants = <<2>>

\* the fixed denominations S of Wasabi 2.0
FixedDenominations == Range(DefaultConfig.wasabi_2_0.denominations_satoshis)

\* the output values of t that occur as often as the most frequent one
MostFrequentValues(t) ==
    {v \in {t.vout[j].value : j \in DOMAIN t.vout} :
        Multiplicity(t, v) = MostFrequent(t)}

\* the distance from v to the nearest fixed denomination is at most k
WithinOfFixed(v, k) == \E d \in FixedDenominations : Abs(v - d) <= k

\* the verdict of detect_wasabi_2_0 on the feature record of t: a most
\* frequent value nearest to S as denomination, condition 1 exactly when a
\* most frequent value is in S, and then a denomination in S
Wasabi2Formula(t, verdict) ==
    Len(t.vout) >= 1 =>
        /\ verdict.denomination[1] \in MostFrequentValues(t)
        /\ \A u \in MostFrequentValues(t) : \A d \in FixedDenominations :
              WithinOfFixed(verdict.denomination[1], Abs(u - d))
        /\ verdict.conditions_met[1]
              = (MostFrequentValues(t) \cap FixedDenominations # {})
        /\ verdict.conditions_met[1]
              = (verdict.denomination[1] \in FixedDenominations)

\* C22: detect_wasabi_2_0 reports the most frequent output value nearest to
\* a fixed denomination; condition 1 holds exactly when some most frequent
\* output value is a fixed denomination, and the reported denomination is
\* then a fixed denomination, otherwise it is none
C22_Wasabi2Denomination ==
    /\ (Analyzed /\ detectors_run # <<>>)
          => Wasabi2Formula(tx, detectors_run[4][2])
    /\ (relation # "none" /\ detectors_run2 # <<>>)
          => Wasabi2Formula(tx2, detectors_run2[4][2])

\* two output values are most frequent, one of them a fixed denomination,
\* and that one is reported with condition 1 met
C22_Witness ==
    /\ Analyzed
    /\ detectors_run # <<>>
    /\ Cardinality(MostFrequentValues(tx)) = 2
    /\ Cardinality(MostFrequentValues(tx) \cap FixedDenominations) = 1
    /\ detectors_run[4][2].conditions_met[1]
    /\ detectors_run[4][2].denomination[1] \in FixedDenominations

\* the output values of t that lie in [d + epsilon_min, d + epsilon_max] for
\* a pool d
PreMixCandidates(t) ==
    {v \in {t.vout[j].value : j \in DOMAIN t.vout} :
        \E d \in PoolDenominations :
            /\ d + DefaultConfig.whirlpool_tx0.epsilon_min <= v
            /\ v <= d + DefaultConfig.whirlpool_tx0.epsilon_max}

\* the most frequent candidate of t, the larger one on a tie
PreMixValue(t) ==
    CHOOSE v \in PreMixCandidates(t) :
        \A u \in PreMixCandidates(t) :
            \/ Multiplicity(t, u) < Multiplicity(t, v)
            \/ Multiplicity(t, u) = Multiplicity(t, v) /\ u <= v

\* the largest pool denomination not exceeding v
LargestPoolUpTo(v) ==
    CHOOSE d \in PoolDenominations :
        /\ d <= v
        /\ \A e \in PoolDenominations : e <= v => e <= d

\* the verdict of detect_whirlpool_tx0 on the feature record of t
Tx0Formula(t, verdict) ==
    IF PreMixCandidates(t) = {}
    THEN verdict.confidence = 0
    ELSE /\ verdict.denomination = <<LargestPoolUpTo(PreMixValue(t))>>
         /\ verdict.participants = <<Multiplicity(t, PreMixValue(t))>>

\* C23: with a candidate among the outputs, detect_whirlpool_tx0 takes the
\* most frequent candidate, the larger on a tie, as pre-mix value, reports
\* the largest pool denomination not exceeding it and the number of outputs
\* equal to it; without a candidate the confidence is 0
C23_Tx0PreMix ==
    /\ (Analyzed /\ detectors_run # <<>>)
          => Tx0Formula(tx, detectors_run[5][2])
    /\ (relation # "none" /\ detectors_run2 # <<>>)
          => Tx0Formula(tx2, detectors_run2[5][2])

\* two candidates occur once each, the smaller one first and in the window
\* of a smaller pool; the pool of the larger one is reported
C23_Witness ==
    /\ Analyzed
    /\ detectors_run # <<>>
    /\ Cardinality(PreMixCandidates(tx)) = 2
    /\ tx.vout[1].value = 100100
    /\ tx.vout[2].value = 1050000
    /\ Multiplicity(tx, 100100) = 1
    /\ Multiplicity(tx, 1050000) = 1
    /\ detectors_run[5][2].denomination = <<1000000>>
    /\ detectors_run[5][2].participants = <<1>>

\* the coordinator fee of the pool of denomination d
PoolFee(d) ==
    LET pools == PoolsSatoshis(DefaultConfig.whirlpool_pools)
    IN  pools[CHOOSE k \in DOMAIN pools : pools[k][1] = d][2]

\* the outputs of t worth between half the fee f and three times f
FeeOutputs(t, f) ==
    {j \in DOMAIN t.vout : f <= 2 * t.vout[j].value /\ t.vout[j].value <= 3 * f}

\* with a candidate among the outputs of t the verdict names a pool, counts
\* one pre-mix output or more, meets condition 4 and has confidence 0.1 or
\* more; condition 2 holds exactly with one fee output and one zero output
Tx0WithCandidate(t, verdict) ==
    IF PreMixCandidates(t) = {}
    THEN verdict.confidence = 0
    ELSE /\ verdict.diagnostic = ""
         /\ verdict.denomination[1] \in PoolDenominations
         /\ verdict.participants[1] >= 1
         /\ verdict.conditions_met[4]
         /\ verdict.confidence >= 1000
         /\ verdict.conditions_met[2]
               = (/\ Cardinality(FeeOutputs(t, PoolFee(verdict.denomination[1])))
                       = 1
                  /\ Multiplicity(t, 0) = 1)

\* C27: under the default pools and epsilon range, whenever
\* detect_whirlpool_tx0 finds a candidate a matching pool exists, the
\* pre-mix count is at least 1 and condition 4 holds, so the confidence is 0
\* without a candidate and at least 0.1 with one, and condition 2 is exactly
\* one coordinator-fee output and one zero-value output
C27_Tx0CandidateHasPool ==
    /\ (Analyzed /\ detectors_run # <<>>)
          => Tx0WithCandidate(tx, detectors_run[5][2])
    /\ (relation # "none" /\ detectors_run2 # <<>>)
          => Tx0WithCandidate(tx2, detectors_run2[5][2])

\* the only candidate lies on the upper bound d + epsilon_max of the pool
\* 1_000_000 and condition 4 is met, condition 2 is not
C27_Witness ==
    /\ Analyzed
    /\ detectors_run # <<>>
    /\ PreMixCandidates(tx) = {1100000}
    /\ detectors_run[5][2].denomination = <<1000000>>
    /\ detectors_run[5][2].conditions_met[4]
    /\ ~detectors_run[5][2].conditions_met[2]
    /\ detectors_run[5][2].confidence >= 1000

\* the inputs of the feature record of t are five, worth d to
\* d + epsilon_max each, and one to four of them are worth more than d
MixInputsValid(t, d) ==
    /\ \A i \in NonCoinbase(t) :
          /\ d <= t.vin[i].prevout[1].value[1]
          /\ t.vin[i].prevout[1].value[1]
                <= d + DefaultConfig.whirlpool_mix.epsilon_max
    /\ Cardinality({i \in NonCoinbase(t) :
                       t.vin[i].prevout[1].value[1] > d}) \in 1..4

\* the verdict of detect_whirlpool_mix on the feature record of t is 1.0
\* with five participants and the pool denomination d of the five outputs
\* when every condition holds, and 0 when one fails
MixAllOrNothing(t, verdict) ==
    /\ verdict.confidence \in {0, 10000}
    /\ verdict.confidence = 10000 =>
          /\ verdict.participants = <<5>>
          /\ verdict.denomination[1] \in PoolDenominations
          /\ Multiplicity(t, verdict.denomination[1]) = 5
          /\ MixInputsValid(t, verdict.denomination[1])
    /\ \A d \in PoolDenominations :
          (Multiplicity(t, d) = 5 /\ ~MixInputsValid(t, d)) =>
              verdict.confidence = 0

\* C24: detect_whirlpool_mix returns confidence 0 as soon as one of its
\* conditions fails, so its confidence is 0 or 1.0, and with 1.0 it reports
\* five participants and the matched pool denomination
C24_MixAllOrNothing ==
    /\ (Analyzed /\ detectors_run # <<>>)
          => MixAllOrNothing(tx, detectors_run[6][2])
    /\ (relation # "none" /\ detectors_run2 # <<>>)
          => MixAllOrNothing(tx2, detectors_run2[6][2])

\* five inputs all worth the pool denomination, none above it: the input
\* requirement fails and detect_whirlpool_mix answers 0.8
C24_PartialScore ==
    /\ Analyzed
    /\ detectors_run # <<>>
    /\ \A i \in DOMAIN tx.vin : tx.vin[i] = In(1000000, i)
    /\ detectors_run[6][2].conditions_met = <<TRUE, TRUE, FALSE>>
    /\ detectors_run[6][2].confidence = 8000
    /\ detectors_run[6][2].denomination = <<1000000>>

----------------------------------------------------------------------------
(* Feature extraction                                                      *)

\* the inputs of t that carry a previous output without a value
WithoutPrevValue(t) ==
    {i \in NonCoinbase(t) : "value" \notin DOMAIN t.vin[i].prevout[1]}

\* the feature record rec of t: an input without a previous value stands
\* with 0 in the input amounts and its script is not counted; there are no
\* more distinct scripts than amounts
FeatureRecordOf(t, rec) ==
    /\ Len(rec.input_amounts) = Cardinality(NonCoinbase(t))
    /\ Count(rec.input_amounts, 0) >= Cardinality(WithoutPrevValue(t))
    /\ rec.nscripts_in =
          Cardinality({t.vin[i].prevout[1].scriptpubkey :
                          i \in NonCoinbase(t) \ WithoutPrevValue(t)})
    /\ rec.nscripts_in <= Len(rec.input_amounts)
    /\ rec.nscripts_out <= Len(rec.output_amounts)

\* C25: in the feature record an input without a previous value counts as
\* value 0 among the input amounts and its script is not counted in
\* nscripts_in; nscripts_in is at most the number of input amounts and
\* nscripts_out at most the number of output amounts
C25_MissingValueInput ==
    /\ (Analyzed /\ result.analysis.transaction_structure # <<>>) =>
          FeatureRecordOf(tx, result.analysis.transaction_structure[1])
    /\ (AnalyzedTwice /\ result2.analysis.transaction_structure # <<>>) =>
          FeatureRecordOf(tx2, result2.analysis.transaction_structure[1])

\* the third input has no previous value and a script of its own: it stands
\* with 0 among the amounts and is the third of three scripts counted
C25_ScriptCounted ==
    /\ Analyzed
    /\ result.analysis.transaction_structure # <<>>
    /\ Len(tx.vin) = 3
    /\ WithoutPrevValue(tx) = {3}
    /\ result.analysis.transaction_structure[1].input_amounts
          = <<1000000, 1000000, 0>>
    /\ result.analysis.transaction_structure[1].nscripts_in = 3

----------------------------------------------------------------------------
(* Whirlpool Mix in the arbiter                                            *)

\* whenever the Whirlpool Mix verdict of the list is above 0 the JoinMarket
\* verdict is 1.0
MixBehindJoinMarket(verdicts) ==
    verdicts[6][2].confidence > 0 => verdicts[1][2].confidence = 10000

\* C26: on every transaction on which detect_whirlpool_mix returns a
\* confidence above 0, detect_joinmarket_v2 returns 1.0, and
\* analyze_transaction never reports whirlpool_mix, whatever the threshold
C26_MixNeverReported ==
    /\ result.coinjoin_type # "whirlpool_mix"
    /\ result2.coinjoin_type # "whirlpool_mix"
    /\ detectors_run # <<>> => MixBehindJoinMarket(detectors_run)
    /\ detectors_run2 # <<>> => MixBehindJoinMarket(detectors_run2)

\* an engine with threshold 1.0 analyzes a transaction on which Whirlpool
\* Mix scores 1.0, and reports joinmarket
C26_Witness ==
    /\ relation = "threshold"
    /\ confidence_threshold2 = 10000
    /\ Len(detectors_run2) = 6
    /\ detectors_run2[6][2].confidence = 10000
    /\ detectors_run2[1][2].confidence = 10000
    /\ result2.is_coinjoin
    /\ result2.coinjoin_type = "joinmarket"

----------------------------------------------------------------------------
(* src/blockstream/data_processor.py: the data processor                   *)
(*                                                                         *)
(* A collection is the sequence of its documents in insertion order.  The  *)
(* database the processor works on is handled as one record db; the        *)
(* caches the client keeps of its answers are not part of the model, the   *)
(* client being represented by what it answers.  Amounts are in satoshis.  *)

Addresses == {"a1", "a2", "a3"}

\* the documents of a collection that match a predicate on one field
FindOne(collection, field, value) ==
    SelectSeq(collection, LAMBDA doc : doc[field] = value)

\* update_one({"_id": doc._id}, {"$set": ...}, upsert=True)
RECURSIVE Upsert(_, _)
Upsert(collection, doc) ==
    IF collection = <<>> THEN <<doc>>
    ELSE IF Head(collection)._id = doc._id
         THEN <<doc>> \o Tail(collection)
         ELSE <<Head(collection)>> \o Upsert(Tail(collection), doc)

\* self.db together with self.next_node_id
Database ==
    [addresses |-> addresses_collection,
     transactions |-> transactions_collection,
     processing |-> processing_collection,
     next_node_id |-> next_node_id]

\* the database and the counter after a call
Stored(db) ==
    /\ addresses_collection' = db.addresses
    /\ transactions_collection' = db.transactions
    /\ processing_collection' = db.processing
    /\ next_node_id' = db.next_node_id

\* _get_or_create_node_id(address): the node id and the database after it
_get_or_create_node_id(db, address) ==
    LET existing == FindOne(db.addresses, "_id", address)
    IN  IF existing # <<>>
        THEN [n_id |-> existing[1].n_id, db |-> db]
        ELSE [n_id |-> db.next_node_id,
              db |-> [db EXCEPT
                        !.addresses = Upsert(@, [_id |-> address,
                                                 n_id |-> db.next_node_id]),
                        !.next_node_id = @ + 1]]

\* an input that spends a previous output of address a
TxIn(a, v) == [prevout |-> <<[scriptpubkey_address |-> <<a>>, value |-> v]>>]

\* an input with the key "coinbase"
CoinbaseKeyIn == [coinbase |-> "03"]

\* a coinbase input as Esplora sends it: is_coinbase true, prevout null
EsploraCoinbaseIn == [is_coinbase |-> TRUE, prevout |-> <<>>]

TxOut(a, v) == [scriptpubkey_address |-> <<a>>, value |-> v]

\* the transactions the upstream knows
BlockstreamTxs ==
    { [txid |-> 1, vin |-> <<TxIn("a1", 2)>>, vout |-> <<TxOut("a2", 2)>>],
      [txid |-> 2, vin |-> <<TxIn("a1", 1), TxIn("a2", 1)>>,
                   vout |-> <<TxOut("a3", 4), TxOut("a1", 2)>>],
      [txid |-> 3, vin |-> <<CoinbaseKeyIn>>, vout |-> <<TxOut("a1", 50)>>],
      [txid |-> 4, vin |-> <<EsploraCoinbaseIn>>, vout |-> <<TxOut("a3", 50)>>] }

MaxListLen == 2

\* the answers of GET /address/<a>/txs
UpstreamLists ==
    UNION {[1..n -> BlockstreamTxs] : n \in 0..MaxListLen}

\* inp.get("prevout", {}).get("value", 0) of the inputs with a "prevout" key;
\* <<>> when one of them is null (AttributeError)
RECURSIVE TotalInputValue(_)
TotalInputValue(inputs) ==
    IF inputs = <<>> THEN <<0>>
    ELSE LET inp == Head(inputs)
             rest == TotalInputValue(Tail(inputs))
         IN  IF "prevout" \notin DOMAIN inp THEN rest
             ELSE IF inp.prevout = <<>> \/ rest = <<>> THEN <<>>
             ELSE <<inp.prevout[1].value + rest[1]>>

\* lines 104 to 151 from input i and output j on: the records, whether an
\* exception left the function, and the database after the node ids made
RECURSIVE ParseFrom(_, _, _, _, _)
ParseFrom(db, tx_data, i, j, transactions) ==
    IF i > Len(tx_data.vin)
    THEN [transactions |-> transactions, raised |-> FALSE, db |-> db]
    ELSE
    LET input_data == tx_data.vin[i]
    IN  IF "coinbase" \in DOMAIN input_data
        THEN ParseFrom(db, tx_data, i + 1, 1, transactions)
        ELSE IF "prevout" \notin DOMAIN input_data
        THEN ParseFrom(db, tx_data, i + 1, 1, transactions)
        ELSE IF input_data.prevout = <<>>
        THEN [transactions |-> transactions, raised |-> TRUE, db |-> db]
        ELSE IF input_data.prevout[1].scriptpubkey_address = <<>>
        THEN ParseFrom(db, tx_data, i + 1, 1, transactions)
        ELSE IF j > Len(tx_data.vout)
        THEN ParseFrom(db, tx_data, i + 1, 1, transactions)
        ELSE
        LET input_addr == input_data.prevout[1].scriptpubkey_address
            input_value == input_data.prevout[1].value
            output_data == tx_data.vout[j]
            output_addr == output_data.scriptpubkey_address
        IN  IF output_addr = <<>> \/ output_addr = input_addr
            THEN ParseFrom(db, tx_data, i, j + 1, transactions)
            ELSE
            LET source == _get_or_create_node_id(db, input_addr[1])
                dest == _get_or_create_node_id(source.db, output_addr[1])
                total_input_value == TotalInputValue(tx_data.vin)
            IN  IF total_input_value = <<>>
                THEN [transactions |-> transactions, raised |-> TRUE,
                      db |-> dest.db]
                ELSE ParseFrom(dest.db, tx_data, i, j + 1,
                       Append(transactions,
                         [txid |-> tx_data.txid,
                          source |-> input_addr[1],
                          destination |-> output_addr[1],
                          source_n_id |-> source.n_id,
                          destination_n_id |-> dest.n_id,
                          amount |-> IF total_input_value[1] > 0
                                     THEN (output_data.value * input_value)
                                              \div total_input_value[1]
                                     ELSE 0,
                          data_source |-> "blockstream"]))

\* self._parse_blockstream_transaction(tx_data)
_parse_blockstream_transaction(db, tx_data) ==
    ParseFrom(db, tx_data, 1, 1, <<>>)

\* find_one({"txid": tx_data["txid"], "data_source": "blockstream"})
ExistingNever(db, tx_data) == FALSE

Existing(db, tx_data) ==
    \E k \in DOMAIN db.transactions :
        /\ db.transactions[k].txid = tx_data.txid
        /\ db.transactions[k].data_source = "blockstream"

\* the addresses of a list of records
RecordAddresses(tx_records) ==
    {tx_records[k].source : k \in DOMAIN tx_records}
        \cup {tx_records[k].destination : k \in DOMAIN tx_records}

\* lines 180 to 205: the loop over the transactions, from the k-th on
RECURSIVE ProcessFrom(_, _, _, _, _)
ProcessFrom(db, transactions, k, processed_txs, new_addresses) ==
    IF k > Len(transactions)
    THEN [db |-> db, processed_txs |-> processed_txs,
          new_addresses |-> new_addresses]
    ELSE
    LET tx_data == transactions[k]
    IN  IF "txid" \notin DOMAIN tx_data
        THEN ProcessFrom(db, transactions, k + 1, processed_txs, new_addresses)
        ELSE IF Existing(db, tx_data)
        THEN ProcessFrom(db, transactions, k + 1, processed_txs, new_addresses)
        ELSE
        LET parsed == _parse_blockstream_transaction(db, tx_data)
        IN  IF parsed.raised \/ parsed.transactions = <<>>
            THEN ProcessFrom(parsed.db, transactions, k + 1, processed_txs,
                             new_addresses)
            ELSE ProcessFrom(
                   [parsed.db EXCEPT !.transactions = @ \o parsed.transactions],
                   transactions, k + 1, processed_txs + 1,
                   new_addresses \cup RecordAddresses(parsed.transactions))

\* the except branch of lines 235 to 251
MarkedFailed(db, address) ==
    [db EXCEPT !.processing = Upsert(@, [_id |-> address, status |-> "failed"])]

\* transactions[:max_transactions]
Truncated(transactions, max_transactions) ==
    SubSeq(transactions, 1,
           IF Len(transactions) < max_transactions THEN Len(transactions)
           ELSE max_transactions)

\* the points where a call of the client can raise
ClientFailures == {"get_address_info", "get_address_transactions"}

\* process_address(client, address, max_transactions) when the client
\* answers response to get_address_transactions, or raises at failure
process_address(db, address, response, max_transactions, failure) ==
    IF failure = "get_address_info"
    THEN [raised |-> TRUE, db |-> MarkedFailed(db, address), stats |-> <<>>]
    ELSE
    LET node == _get_or_create_node_id(db, address)
    IN  IF failure = "get_address_transactions"
        THEN [raised |-> TRUE, db |-> MarkedFailed(node.db, address),
              stats |-> <<>>]
        ELSE
        LET transactions == Truncated(response, max_transactions)
            done == ProcessFrom(node.db, transactions, 1, 0, {})
        IN  [raised |-> FALSE,
             db |-> [done.db EXCEPT !.processing =
                        Upsert(@, [_id |-> address, status |-> "completed"])],
             stats |-> <<[address |-> address,
                          node_id |-> node.n_id,
                          total_transactions |-> Len(transactions),
                          processed_transactions |-> done.processed_txs,
                          new_addresses |-> Cardinality(done.new_addresses),
                          discovered_addresses |-> done.new_addresses]>>]

\* what process_address leaves in process_calls
CallRecord(address, max_transactions, r) ==
    [address |-> address, max_transactions |-> max_transactions,
     returned |-> ~r.raised,
     processed_transactions |->
         IF r.raised THEN 0 ELSE r.stats[1].processed_transactions]

----------------------------------------------------------------------------
(* discover_cluster                                                        *)

MaxDepth == 2
MaxAddresses == 4

\* the values of max_depth: none of the depths, and 0 to MaxDepth
MaxDepthArgs == {0 - 1} \cup (0..MaxDepth)

\* list(S) for a Python set S: its elements in some order
ListsOf(S) ==
    {l \in [1..Cardinality(S) -> S] : \A i, j \in DOMAIN l : l[i] = l[j] => i = j}

\* lines 290 to 293 without the test on max_addresses
RECURSIVE AddDiscoveredUncapped(_, _, _)
AddDiscoveredUncapped(d, new_addrs, depth) ==
    IF new_addrs = <<>> THEN d
    ELSE LET new_addr == Head(new_addrs)
         IN  IF new_addr \notin d.discovered_addresses
             THEN AddDiscoveredUncapped(
                    [d EXCEPT !.discovered_addresses = @ \cup {new_addr},
                              !.processing_queue =
                                  Append(@, <<new_addr, depth + 1>>)],
                    Tail(new_addrs), depth)
             ELSE AddDiscoveredUncapped(d, Tail(new_addrs), depth)

\* lines 290 to 293: the loop over stats["discovered_addresses"]
RECURSIVE AddDiscovered(_, _, _)
AddDiscovered(d, new_addrs, depth) ==
    IF new_addrs = <<>> THEN d
    ELSE LET new_addr == Head(new_addrs)
         IN  IF /\ new_addr \notin d.discovered_addresses
                /\ Cardinality(d.discovered_addresses) < d.max_addresses
             THEN AddDiscovered(
                    [d EXCEPT !.discovered_addresses = @ \cup {new_addr},
                              !.processing_queue =
                                  Append(@, <<new_addr, depth + 1>>)],
                    Tail(new_addrs), depth)
             ELSE AddDiscovered(d, Tail(new_addrs), depth)

\* lines 260 to 262
StartDiscovery(start_address, max_depth, max_addresses) ==
    [pc |-> "loop", start_address |-> start_address,
     max_depth |-> max_depth, max_addresses |-> max_addresses,
     discovered_addresses |-> {start_address},
     processing_queue |-> <<<<start_address, 0>>>>,
     processed_addresses |-> {}, process_address_calls |-> <<>>]

\* discover_cluster(client, "a1", max_depth, max_addresses) on an empty database
InitDiscover ==
    /\ config = DefaultConfig
    /\ confidence_threshold = DefaultConfidenceThreshold
    /\ tx = PaymentExample
    /\ pc = "blockstream"
    /\ result = NotCalled
    /\ detectors_run = <<>>
    /\ relation = "none"
    /\ tx2 = tx
    /\ result2 = NotCalled
    /\ detectors_run2 = <<>>
    /\ picked = [wasabi_1 |-> 0, wasabi_2 |-> 0]
    /\ confidence_threshold2 = DefaultConfidenceThreshold
    /\ calls = <<>>
    /\ \E max_depth \in MaxDepthArgs, max_addresses \in 0..MaxAddresses :
          discovery = StartDiscovery("a1", max_depth, max_addresses)
    /\ rate_limiting = <<>>
    /\ clock = [day |-> 1, hour |-> 0]
    /\ requests = <<>>
    /\ EmptyDatabase
    /\ upstream = <<>>
    /\ process_calls = <<>>

\* the condition of the while of line 273
LoopRuns ==
    /\ discovery.pc = "loop"
    /\ discovery.processing_queue # <<>>
    /\ Cardinality(discovery.discovered_addresses) < discovery.max_addresses

\* the test of line 276 on the head of the queue
Skipped ==
    \/ discovery.processing_queue[1][1] \in discovery.processed_addresses
    \/ discovery.processing_queue[1][2] > discovery.max_depth

\* lines 274 to 277: the entry popped is dropped
DiscoverSkip ==
    /\ LoopRuns
    /\ Skipped
    /\ discovery' = [discovery EXCEPT !.processing_queue = Tail(@)]
    /\ UNCHANGED <<engine, rate_limiting, clock, requests,
                   addresses_collection, transactions_collection,
                   processing_collection, next_node_id, upstream,
                   process_calls>>

\* lines 274 to 299: process_address returns
DiscoverProcess ==
    /\ LoopRuns
    /\ ~Skipped
    /\ \E response \in UpstreamLists :
          LET address == discovery.processing_queue[1][1]
              depth == discovery.processing_queue[1][2]
              r == process_address(Database, address, response, 25, "none")
              popped == [discovery EXCEPT
                           !.processing_queue = Tail(@),
                           !.processed_addresses = @ \cup {address},
                           !.process_address_calls =
                               Append(@, <<address, depth>>)]
          IN  /\ Stored(r.db)
              /\ process_calls' =
                     Append(process_calls, CallRecord(address, 25, r))
              /\ IF depth < discovery.max_depth
                 THEN \E new_addrs \in ListsOf(r.stats[1].discovered_addresses) :
                         discovery' = AddDiscovered(popped, new_addrs, depth)
                 ELSE discovery' = popped
    /\ UNCHANGED <<engine, rate_limiting, clock, requests, upstream>>

\* lines 274 to 281 and 301 to 303: process_address raises
DiscoverProcessFails ==
    /\ LoopRuns
    /\ ~Skipped
    /\ \E failure \in ClientFailures :
          LET address == discovery.processing_queue[1][1]
              depth == discovery.processing_queue[1][2]
              r == process_address(Database, address, <<>>, 25, failure)
          IN  /\ Stored(r.db)
              /\ process_calls' =
                     Append(process_calls, CallRecord(address, 25, r))
              /\ discovery' = [discovery EXCEPT
                                 !.processing_queue = Tail(@),
                                 !.processed_addresses = @ \cup {address},
                                 !.process_address_calls =
                                     Append(@, <<address, depth>>)]
    /\ UNCHANGED <<engine, rate_limiting, clock, requests, upstream>>

\* lines 273 and 305 to 311: the loop is left and total_stats returned
DiscoverReturn ==
    /\ discovery.pc = "loop"
    /\ ~LoopRuns
    /\ discovery' = [discovery EXCEPT !.pc = "returned"]
    /\ UNCHANGED <<engine, rate_limiting, clock, requests,
                   addresses_collection, transactions_collection,
                   processing_collection, next_node_id, upstream,
                   process_calls>>

NextDiscover ==
    \/ DiscoverSkip
    \/ DiscoverProcess
    \/ DiscoverProcessFails
    \/ DiscoverReturn

\* the coroutine is resumed whenever it can go on: every await of the loop
\* ends, with an answer, an exception or the timeout of the session
SpecDiscover == InitDiscover /\ [][NextDiscover]_vars /\ WF_vars(NextDiscover)

Max(a, b) == IF a > b THEN a ELSE b

\* the addresses handed to process_address are pairwise different
NoAddressTwice ==
    \A i, j \in DOMAIN discovery.process_address_calls :
        discovery.process_address_calls[i][1] = discovery.process_address_calls[j][1]
            => i = j

\* no call was made at a depth beyond max_depth
NoCallTooDeep ==
    \A i \in DOMAIN discovery.process_address_calls :
        discovery.process_address_calls[i][2] <= discovery.max_depth

\* the discovered set holds at most max(1, max_addresses) addresses
DiscoveredBounded ==
    Cardinality(discovery.discovered_addresses)
        <= Max(1, discovery.max_addresses)

\* C28: in discover_cluster, whatever the upstream answers and wherever
\* process_address fails, no address is passed to process_address twice,
\* no address is processed deeper than max_depth, the discovered set never
\* holds more than max(1, max_addresses) addresses, and the loop ends
C28_DiscoverClusterBounded ==
    /\ [](NoAddressTwice /\ NoCallTooDeep /\ DiscoveredBounded)
    /\ <>(discovery.pc = "returned")

\* discover_cluster has returned after it processed the three addresses,
\* one of the calls having failed, and the last at depth max_depth
C28_Witness ==
    /\ discovery.pc = "returned"
    /\ Len(discovery.process_address_calls) = 3
    /\ \E i \in DOMAIN process_calls : ~process_calls[i].returned
    /\ \E i \in DOMAIN process_calls : process_calls[i].returned
    /\ discovery.process_address_calls[3][2] = discovery.max_depth
    /\ discovery.max_addresses = MaxAddresses

----------------------------------------------------------------------------
(* src/blockstream/api_client.py: the rate limiter                         *)
(*                                                                         *)
(* The document of the month holds monthly_count, daily_counts by day and  *)
(* hourly_counts by hour; a key that is absent reads as 0, which is what   *)
(* doc.get(key, 0) returns and what $inc starts from.                      *)

\* RateLimiter(db, monthly_limit)
RateLimiter(monthly_limit) ==
    [monthly_limit |-> monthly_limit,
     daily_limit |-> monthly_limit \div 30,
     hourly_limit |-> monthly_limit \div (30 * 24)]

\* BlockstreamClient(db).rate_limiter
rate_limiter == RateLimiter(400000)

\* datetime.now() at the calls: the last hour of a day and the next one
ClockTicks == <<[day |-> 30, hour |-> 23], [day |-> 31, hour |-> 0]>>

Days == {ClockTicks[i].day : i \in DOMAIN ClockTicks}

\* a document with the given counts at the first tick
UsageDoc(monthly_count, daily_count, hourly_count) ==
    [monthly_count |-> monthly_count,
     daily_counts |-> [d \in Days |->
                          IF d = ClockTicks[1].day THEN daily_count ELSE 0],
     hourly_counts |-> [h \in Range(ClockTicks) |->
                          IF h = ClockTicks[1] THEN hourly_count ELSE 0]]

\* what the collection holds when the calls start: nothing, or the usage of
\* the month so far (the third after hours that were overshot)
StoredUsage ==
    { <<>>,
      <<UsageDoc(20000, 600, 554)>>,
      <<UsageDoc(399999, 600, 100)>>,
      <<UsageDoc(300000, 13332, 100)>>,
      <<UsageDoc(400000, 600, 100)>> }

\* lines 51 to 61: the three counts check_limits reads
CountsRead(stored, now) ==
    IF stored = <<>>
    THEN [monthly_count |-> 0, daily_count |-> 0, hourly_count |-> 0]
    ELSE [monthly_count |-> stored[1].monthly_count,
          daily_count |-> stored[1].daily_counts[now.day],
          hourly_count |-> stored[1].hourly_counts[now]]

\* check_limits()[0]
check_limits(limiter, stored, now) ==
    LET counts == CountsRead(stored, now)
    IN  IF counts.monthly_count >= limiter.monthly_limit THEN FALSE
        ELSE IF counts.daily_count >= limiter.daily_limit THEN FALSE
        ELSE IF counts.hourly_count >= limiter.hourly_limit THEN FALSE
        ELSE TRUE

\* record_request(endpoint, response_size): the document after the $inc
record_request(stored, now) ==
    LET doc == IF stored = <<>> THEN UsageDoc(0, 0, 0) ELSE stored[1]
    IN  <<[doc EXCEPT !.monthly_count = @ + 1,
                      !.daily_counts[now.day] = @ + 1,
                      !.hourly_counts[now] = @ + 1]>>

NumRequests == 2

\* a coroutine about to call _make_request
NewRequest == [pc |-> "start", sent |-> FALSE, seen |-> <<>>]

\* two coroutines call _make_request on clients that share the collection
InitRateLimited ==
    /\ config = DefaultConfig
    /\ confidence_threshold = DefaultConfidenceThreshold
    /\ tx = PaymentExample
    /\ pc = "blockstream"
    /\ result = NotCalled
    /\ detectors_run = <<>>
    /\ relation = "none"
    /\ tx2 = tx
    /\ result2 = NotCalled
    /\ detectors_run2 = <<>>
    /\ picked = [wasabi_1 |-> 0, wasabi_2 |-> 0]
    /\ confidence_threshold2 = DefaultConfidenceThreshold
    /\ calls = <<>>
    /\ discovery = NoDiscovery
    /\ rate_limiting \in StoredUsage
    /\ clock = ClockTicks[1]
    /\ requests = [c \in 1..NumRequests |-> NewRequest]
    /\ EmptyDatabase
    /\ upstream = <<>>
    /\ process_calls = <<>>

\* lines 220 to 222: the limits are checked and the call refused
RefuseRequest(c) ==
    /\ requests[c].pc = "start"
    /\ ~check_limits(rate_limiter, rate_limiting, clock)
    /\ requests' = [requests EXCEPT
                      ![c].pc = "RateLimitExceeded",
                      ![c].seen = <<CountsRead(rate_limiting, clock)>>]
    /\ UNCHANGED <<engine, discovery, rate_limiting, clock,
                   addresses_collection, transactions_collection,
                   processing_collection, next_node_id, upstream,
                   process_calls>>

\* lines 220 to 227: the limits are checked and the request sent; the
\* coroutine is suspended until the response arrives
SendRequest(c) ==
    /\ requests[c].pc = "start"
    /\ check_limits(rate_limiter, rate_limiting, clock)
    /\ requests' = [requests EXCEPT
                      ![c].pc = "awaiting", ![c].sent = TRUE,
                      ![c].seen = <<CountsRead(rate_limiting, clock)>>]
    /\ UNCHANGED <<engine, discovery, rate_limiting, clock,
                   addresses_collection, transactions_collection,
                   processing_collection, next_node_id, upstream,
                   process_calls>>

\* lines 233 to 241: the response is read and the request recorded
ReceiveResponse(c) ==
    /\ requests[c].pc = "awaiting"
    /\ rate_limiting' = record_request(rate_limiting, clock)
    /\ requests' = [requests EXCEPT ![c].pc = "returned"]
    /\ UNCHANGED <<engine, discovery, clock,
                   addresses_collection, transactions_collection,
                   processing_collection, next_node_id, upstream,
                   process_calls>>

\* lines 228 to 231: the upstream answers 429
ReceiveTooManyRequests(c) ==
    /\ requests[c].pc = "awaiting"
    /\ requests' = [requests EXCEPT ![c].pc = "RateLimitExceeded"]
    /\ UNCHANGED <<engine, discovery, rate_limiting, clock,
                   addresses_collection, transactions_collection,
                   processing_collection, next_node_id, upstream,
                   process_calls>>

\* lines 233 and 243 to 245: an error status, or the connection fails
ReceiveError(c) ==
    /\ requests[c].pc = "awaiting"
    /\ requests' = [requests EXCEPT ![c].pc = "ClientError"]
    /\ UNCHANGED <<engine, discovery, rate_limiting, clock,
                   addresses_collection, transactions_collection,
                   processing_collection, next_node_id, upstream,
                   process_calls>>

\* the hour ends
Tick ==
    /\ clock = ClockTicks[1]
    /\ clock' = ClockTicks[2]
    /\ UNCHANGED <<engine, discovery, rate_limiting, requests,
                   addresses_collection, transactions_collection,
                   processing_collection, next_node_id, upstream,
                   process_calls>>

NextRateLimited ==
    \/ \E c \in DOMAIN requests : RefuseRequest(c)
    \/ \E c \in DOMAIN requests : SendRequest(c)
    \/ \E c \in DOMAIN requests : ReceiveResponse(c)
    \/ \E c \in DOMAIN requests : ReceiveTooManyRequests(c)
    \/ \E c \in DOMAIN requests : ReceiveError(c)
    \/ Tick

SpecRateLimited == InitRateLimited /\ [][NextRateLimited]_vars

\* a count that check_limits read had reached its limit
AtLimit(counts) ==
    \/ counts.monthly_count >= 400000
    \/ counts.daily_count >= 13333
    \/ counts.hourly_count >= 555

\* a call that read a count at its limit sent nothing and raised
RefusedAtLimit ==
    \A c \in DOMAIN requests :
        (requests[c].seen # <<>> /\ AtLimit(requests[c].seen[1]))
            => (requests[c].pc = "RateLimitExceeded" /\ ~requests[c].sent)

\* no recorded count is above its limit
RecordedWithinLimits ==
    rate_limiting # <<>> =>
        /\ rate_limiting[1].monthly_count <= 400000
        /\ \A d \in DOMAIN rate_limiting[1].daily_counts :
              rate_limiting[1].daily_counts[d] <= 13333
        /\ \A h \in DOMAIN rate_limiting[1].hourly_counts :
              rate_limiting[1].hourly_counts[h] <= 555

\* C29: _make_request sends nothing and raises RateLimitExceeded when a
\* stored count has reached its limit, and however concurrent calls
\* interleave, the requests recorded in an hour, a day and a month never
\* exceed hourly_limit, daily_limit and monthly_limit
C29_RateLimited == RefusedAtLimit /\ RecordedWithinLimits

\* two calls read 554 requests for the hour, both were sent and recorded:
\* the hour holds 556
C29_HourlyLimitExceeded ==
    /\ \A c \in DOMAIN requests :
          /\ requests[c].pc = "returned"
          /\ requests[c].seen[1].hourly_count = 554
    /\ rate_limiting[1].hourly_counts[ClockTicks[1]] = 556

----------------------------------------------------------------------------
(* process_address called again and again on one DataProcessor             *)

MaxProcessCalls == 3

\* the addresses the caller asks for
DirectAddresses == {"a1", "a2"}

\* the values of max_transactions: a short page, and that of discover_cluster
MaxTransactionsArgs == {1, 25}

\* DataProcessor(db) on an empty database; the chain does not move
\* while the calls are made
InitProcess ==
    /\ config = DefaultConfig
    /\ confidence_threshold = DefaultConfidenceThreshold
    /\ tx = PaymentExample
    /\ pc = "blockstream"
    /\ result = NotCalled
    /\ detectors_run = <<>>
    /\ relation = "none"
    /\ tx2 = tx
    /\ result2 = NotCalled
    /\ detectors_run2 = <<>>
    /\ picked = [wasabi_1 |-> 0, wasabi_2 |-> 0]
    /\ confidence_threshold2 = DefaultConfidenceThreshold
    /\ calls = <<>>
    /\ discovery = NoDiscovery
    /\ rate_limiting = <<>>
    /\ clock = [day |-> 1, hour |-> 0]
    /\ requests = <<>>
    /\ EmptyDatabase
    /\ upstream \in [DirectAddresses -> UpstreamLists]
    /\ process_calls = <<>>

\* stats = await processor.process_address(client, address, max_transactions)
ProcessAddress ==
    /\ Len(process_calls) < MaxProcessCalls
    /\ \E address \in DirectAddresses, max_transactions \in MaxTransactionsArgs :
          LET r == process_address(Database, address, upstream[address],
                                   max_transactions, "none")
          IN  /\ Stored(r.db)
              /\ process_calls' =
                     Append(process_calls,
                            CallRecord(address, max_transactions, r))
    /\ UNCHANGED <<engine, discovery, rate_limiting, clock, requests, upstream>>

\* the same call when the client raises
ProcessAddressFails ==
    /\ Len(process_calls) < MaxProcessCalls
    /\ \E address \in DirectAddresses, max_transactions \in MaxTransactionsArgs,
          failure \in ClientFailures :
          LET r == process_address(Database, address, upstream[address],
                                   max_transactions, failure)
          IN  /\ Stored(r.db)
              /\ process_calls' =
                     Append(process_calls,
                            CallRecord(address, max_transactions, r))
    /\ UNCHANGED <<engine, discovery, rate_limiting, clock, requests, upstream>>

NextProcess == ProcessAddress \/ ProcessAddressFails

SpecProcess == InitProcess /\ [][NextProcess]_vars

\* the input-output pairs of a transaction that make a record
RecordPairs(t) ==
    {p \in (DOMAIN t.vin) \X (DOMAIN t.vout) :
        /\ "prevout" \in DOMAIN t.vin[p[1]]
        /\ t.vin[p[1]].prevout # <<>>
        /\ t.vin[p[1]].prevout[1].scriptpubkey_address
               # t.vout[p[2]].scriptpubkey_address}

\* the records of every txid are in the collection at most once
StoredOnce ==
    \A t \in BlockstreamTxs :
        Cardinality({k \in DOMAIN transactions_collection :
                        transactions_collection[k].txid = t.txid})
            <= Cardinality(RecordPairs(t))

\* a call that returns after an earlier call for the same address has
\* returned reports no processed transaction
LaterCallReportsZero ==
    \A i, j \in DOMAIN process_calls :
        (/\ i < j
         /\ process_calls[i].address = process_calls[j].address
         /\ process_calls[i].returned
         /\ process_calls[j].returned)
            => process_calls[j].processed_transactions = 0

\* the same, both calls having the same max_transactions
RepeatedCallReportsZero ==
    \A i, j \in DOMAIN process_calls :
        (/\ i < j
         /\ process_calls[i].address = process_calls[j].address
         /\ process_calls[i].returned
         /\ process_calls[j].returned
         /\ process_calls[i].max_transactions = process_calls[j].max_transactions)
            => process_calls[j].processed_transactions = 0

\* C30: process_address is idempotent on stored transactions: after any
\* sequence of calls the records of a txid were inserted at most once, and
\* a call that repeats a returned call for the same address, with the same
\* upstream list and the same max_transactions, reports
\* processed_transactions = 0
C30_ProcessAddressIdempotent == StoredOnce /\ RepeatedCallReportsZero

\* C30 as stated: a second call for the same address with the same
\* upstream list reports processed_transactions = 0, whatever the
\* max_transactions of the two calls
C30_AsStated == StoredOnce /\ LaterCallReportsZero

\* a1 is processed (two transactions stored), then a2, whose list shares
\* a transaction with that of a1, then a1 again: nothing is processed
C30_Witness ==
    /\ Len(process_calls) = 3
    /\ process_calls[1].address = "a1"
    /\ process_calls[1].returned
    /\ process_calls[1].processed_transactions = 2
    /\ process_calls[2].address = "a2"
    /\ process_calls[2].returned
    /\ Range(upstream["a1"]) \cap Range(upstream["a2"]) # {}
    /\ process_calls[3].address = "a1"
    /\ process_calls[3].returned
    /\ process_calls[3].max_transactions = process_calls[1].max_transactions
    /\ process_calls[3].processed_transactions = 0
    /\ Len(transactions_collection) = 4

====
